---- MODULE Spec2Model ----
(***************************************************************************)
(* A model of the station-finding pipeline of js/stationFinder.js and of   *)
(* the wrappers of js/gaodeApi.js it calls.                                *)
(*                                                                         *)
(* One run of StationFinder.findMiddleStations is a state machine: the     *)
(* run suspends at every external call (geocoder, place search, transit    *)
(* route, nearby search) and at every delay, and resumes on the backend's  *)
(* callback or on the timer of the call.  Every action below is one such   *)
(* resumption together with all the synchronous code that follows it up to *)
(* the next suspension.                                                    *)
(*                                                                         *)
(* Abstractions of the data:                                               *)
(*  - a station name is a number of 1..NumStations;                        *)
(*  - all places lie on one meridian, so a coordinate is its latitude and  *)
(*    the Haversine distance of calculateDistance is R * |lat1 - lat2|;    *)
(*    latitudes are integers in the unit that makes one step 1000 m, and   *)
(*    distances are in units of 1000 m;                                    *)
(*  - a JavaScript number is an integer, and NaN is the value NaN below;   *)
(*  - scores are kept in tenths so that the weight 0.3 is exact;           *)
(*  - of a route only the duration and the subway station names are kept,  *)
(*    of a station only its name, latitude and source tag.                 *)
(*  - CONFIG.ALGORITHM.MAX_CANDIDATES (10) and MAX_RESULTS (5) are scaled  *)
(*    down to MAX_CANDIDATES and MAX_RESULTS below; the batch size is the  *)
(*    program's.                                                           *)
(*                                                                         *)
(* Around the run the module has the calls a timer rejected and the late   *)
(* answers of the backend to them, a second run on the same StationFinder, *)
(* and the page of app.js: handleSearch, the search history with           *)
(* localStorage, the result list and the markers of js/mapView.js.         *)
(***************************************************************************)
EXTENDS Integers, Sequences, FiniteSets, TLC

(***************************************************************************)
(* Bounds of the model.                                                    *)
(***************************************************************************)
\* the station names the backend can report are 1..NumStations
NumStations == 4
\* CONFIG.ALGORITHM.MAX_CANDIDATES, scaled down from 10
MAX_CANDIDATES == 3
\* CONFIG.ALGORITHM.MAX_RESULTS, scaled down from 5
MAX_RESULTS == 2
\* longest list of stops / of POIs one backend answer carries
MaxListLen == 2

\* longest leg of a timed station in the inputs of the ranking
MaxTime == 2
\* longest list of timed stations in the inputs of the ranking
MaxRanked == 3

\* CONFIG.MAX_HISTORY, scaled down from 10
MAX_HISTORY == 2
\* most searches of the page awaiting findMiddleStations at one time
MaxSearches == 2
\* most setTimeout timers of showError pending at one time
MaxTimers == 1

\* most input events of one autocomplete input
MaxInputs == 3
\* longest list of suggestions getSuggestions answers with
MaxSuggestions == 2

(***************************************************************************)
(* Program constants.                                                      *)
(***************************************************************************)
\* const batchSize = 2 in calculateTravelTimes
batchSize == 2
\* CONFIG.ALGORITHM.BALANCE_WEIGHT = 0.3, in tenths
BALANCE_WEIGHT_TENTHS == 3
\* CONFIG.ALGORITHM.SEARCH_RADIUS = 3000 m, in units of 1000 m
SEARCH_RADIUS == 3
\* the radius 2000 m of the searches around the start and the end
ENDPOINT_RADIUS == 2
\* await this.api.delay(300) between the two queries of a candidate, in ms
QUERY_DELAY == 300
\* await this.api.delay(800) between two batches, in ms
BATCH_DELAY == 800

Names == 1..NumStations

\* the JavaScript value NaN, for the quantities that are never negative
\* (durations, distances)
NaN == 0 - 1

IsNaN(x) == x = NaN

Abs(x) == IF x < 0 THEN 0 - x ELSE x

Max2(a, b) == IF a > b THEN a ELSE b

Min2(a, b) == IF a < b THEN a ELSE b

Range(s) == {s[k] : k \in 1..Len(s)}

\* sequences over S of length at most n
SeqsUpTo(S, n) == UNION {[1..k -> S] : k \in 0..n}

(***************************************************************************)
(* The world the backend reports.                                          *)
(***************************************************************************)
\* the two addresses of the run
StartAddress == "A"

EndAddress == "B"

\* latitude the geocoding services report for an address: the Geocoder and
\* the PlaceSearch fallback may resolve one address to different points
GeoLat(address, via) ==
    IF address = StartAddress
    THEN (IF via = "geocoder" THEN 0 ELSE 2)
    ELSE (IF via = "geocoder" THEN 6 ELSE 4)

\* latitude the nearby search reports for a station
StationLats == <<0, 2, 3, 5, 7, 1>>

StationLat(n) == StationLats[((n - 1) % Len(StationLats)) + 1]

\* the stations searchNearBy can report: those within the radius
NearbyNames(center, radius) ==
    {n \in Names : Abs(StationLat(n) - center.lat) <= radius}

\* the subway stops a route can pass: those between its two ends
RouteNames(origin, destination) ==
    {n \in Names : /\ Min2(origin.lat, destination.lat) <= StationLat(n)
                   /\ StationLat(n) <= Max2(origin.lat, destination.lat)}

\* plan.time as the routing backend reports it for start -> station and for
\* station -> end; NaN stands for a missing or non-numeric field
RawTimesFromStart == <<2, 1, NaN, 3, 0, 4>>

RawTimesToEnd == <<2, 3, NaN, 1, 5, 4>>

RawTimeFromStart(n) == RawTimesFromStart[((n - 1) % Len(RawTimesFromStart)) + 1]

RawTimeToEnd(n) == RawTimesToEnd[((n - 1) % Len(RawTimesToEnd)) + 1]

\* plan.time of the main route
MainRawTimes == {4}

(***************************************************************************)
(* gaodeApi.js: conversions of a backend answer.                           *)
(***************************************************************************)
\* parseInt(x): NaN for a missing or non-numeric field
ParseInt(raw) == IF IsNaN(raw) THEN NaN ELSE raw

\* x || 0: NaN and 0 are falsy
OrZero(x) == IF IsNaN(x) \/ x = 0 THEN 0 ELSE x

\* Array.from(new Set(...)) over the stops added in order: first occurrence
\* of every name, in order of first occurrence
RECURSIVE SetToArray(_)
SetToArray(stops) ==
    IF stops = <<>> THEN <<>>
    ELSE LET front == SetToArray(SubSeq(stops, 1, Len(stops) - 1))
             last == stops[Len(stops)]
         IN  IF last \in Range(front) THEN front ELSE Append(front, last)

\* routeData built by the Transfer callback of getTransitRoute
RouteData(rawTime, stops) ==
    [duration |-> OrZero(ParseInt(rawTime)),
     allSubwayStations |-> SetToArray(stops)]

\* one POI of searchNearBy around center mapped to a station object;
\* poi.distance is the distance of the POI from the center of the search
PoiStation(n, center) ==
    [name |-> n, lat |-> StationLat(n),
     distance |-> OrZero(ParseInt(Abs(StationLat(n) - center.lat)))]

\* the stations array searchNearbySubwayStations resolves with
RECURSIVE PoiStations(_, _)
PoiStations(pois, center) ==
    IF pois = <<>> THEN <<>>
    ELSE <<PoiStation(Head(pois), center)>>
         \o PoiStations(Tail(pois), center)

(***************************************************************************)
(* stationFinder.js: the Map used for deduplication, as the sequence of    *)
(* its values in insertion order; the key of a value is its name.          *)
(***************************************************************************)
MapHas(m, key) == \E k \in 1..Len(m) : m[k].name = key

\* Map.prototype.set: an existing key keeps its position and gets the new
\* value, a new key is appended
MapSet(m, key, value) ==
    IF MapHas(m, key)
    THEN [k \in 1..Len(m) |-> IF m[k].name = key THEN value ELSE m[k]]
    ELSE Append(m, value)

\* { ...station, field: value }
Spread(station, field, value) == (field :> value) @@ station

\* strategy 1: forEach over allSubwayStations, unconditional set
RECURSIVE AddRouteStations(_, _)
AddRouteStations(m, names) ==
    IF names = <<>> THEN m
    ELSE AddRouteStations(
             MapSet(m, Head(names), [name |-> Head(names), source |-> "route"]),
             Tail(names))

\* mutant: a found station is added without the check of its name
AddIfAbsent_NoCheck(m, station, source) ==
    Append(m, Spread(station, "source", source))

\* mutant: a later discovery of a name overwrites the entry
AddIfAbsent_Overwrite(m, station, source) ==
    MapSet(m, station.name, Spread(station, "source", source))

\* strategies 2 and 3: forEach over found stations, set only when absent
AddIfAbsent(m, station, source) ==
    IF ~MapHas(m, station.name)
    THEN MapSet(m, station.name, Spread(station, "source", source))
    ELSE m

RECURSIVE AddFoundStations(_, _, _)
AddFoundStations(m, stations, source) ==
    IF stations = <<>> THEN m
    ELSE AddFoundStations(AddIfAbsent(m, Head(stations), source),
                          Tail(stations), source)

HasLat(loc) == "lat" \in DOMAIN loc

\* calculateMidpoint (the latitudes of the model have an even sum)
calculateMidpoint(loc1, loc2) == [lat |-> (loc1.lat + loc2.lat) \div 2]

\* calculateDistance: arithmetic on an undefined coordinate gives NaN
calculateDistance(loc1, loc2) ==
    IF HasLat(loc1) /\ HasLat(loc2) THEN Abs(loc2.lat - loc1.lat) ELSE NaN

\* the comparator (a, b) => a - b as Array.prototype.sort reads it: the
\* difference of two numbers, and +0 when it is NaN
SortCompare(a, b) == IF IsNaN(a) \/ IsNaN(b) THEN 0 ELSE a - b

\* Array.prototype.sort((a, b) => a[field] - b[field]): a stable sort that
\* moves an element in front of another only when the comparator is
\* negative.  (With a NaN key the comparator is inconsistent; for the
\* arrays built here, whose NaN keys come first, the insertion and merge
\* sorts of the engines give this same order.)
RECURSIVE InsertByField(_, _, _)
InsertByField(sorted, x, field) ==
    IF sorted = <<>> THEN <<x>>
    ELSE LET last == sorted[Len(sorted)]
         IN  IF SortCompare(x[field], last[field]) < 0
             THEN Append(InsertByField(SubSeq(sorted, 1, Len(sorted) - 1),
                                       x, field), last)
             ELSE Append(sorted, x)

RECURSIVE ArraySort(_, _)
ArraySort(arr, field) ==
    IF arr = <<>> THEN <<>>
    ELSE InsertByField(ArraySort(SubSeq(arr, 1, Len(arr) - 1), field),
                       arr[Len(arr)], field)

\* Array.prototype.slice(0, n)
Slice(arr, n) == SubSeq(arr, 1, Min2(n, Len(arr)))

\* the map step of the pruning
WithDistance(arr, midPoint) ==
    [k \in 1..Len(arr) |->
        Spread(arr[k], "distanceToMid", calculateDistance(arr[k], midPoint))]

\* mutant: the candidates are measured, sorted and cut whatever their number
PruneCandidates_Always(m, midPoint) ==
    Slice(ArraySort(WithDistance(m, midPoint), "distanceToMid"),
          MAX_CANDIDATES)

\* the tail of extractCandidateStations: Array.from(values) and the pruning
PruneCandidates(m, midPoint) ==
    IF Len(m) > MAX_CANDIDATES
    THEN Slice(ArraySort(WithDistance(m, midPoint), "distanceToMid"),
               MAX_CANDIDATES)
    ELSE m

\* this.balanceWeight of the StationFinder, in tenths
VARIABLE balanceWeight

\* mutant: the difference is not divided by the longer leg
BalanceScore_Unnormalised(timeDiff, maxTime) ==
    IF maxTime = 0
    THEN [nan |-> TRUE, num |-> 0, den |-> 1]
    ELSE [nan |-> FALSE, num |-> 100 - timeDiff, den |-> 1]

\* 100 - (timeDiff / maxTime) * 100, kept as the exact fraction num/den;
\* 0/0 is NaN
BalanceScore(timeDiff, maxTime) ==
    IF maxTime = 0
    THEN [nan |-> TRUE, num |-> 0, den |-> 1]
    ELSE [nan |-> FALSE, num |-> 100 * (maxTime - timeDiff), den |-> maxTime]

\* mutant: the score is built on the total time
Scored_TotalTime(station) ==
    LET maxTime == Max2(station.timeFromStart, station.timeToEnd)
        timeDiff == Abs(station.timeFromStart - station.timeToEnd)
        totalTime == station.timeFromStart + station.timeToEnd
    IN  [maxTime |-> maxTime,
         timeDiff |-> timeDiff,
         totalTime |-> totalTime,
         score |-> 10 * totalTime + timeDiff * balanceWeight,
         balanceScore |-> BalanceScore(timeDiff, maxTime)] @@ station

\* mutant: the weighted difference is subtracted
Scored_MinusDiff(station) ==
    LET maxTime == Max2(station.timeFromStart, station.timeToEnd)
        timeDiff == Abs(station.timeFromStart - station.timeToEnd)
        totalTime == station.timeFromStart + station.timeToEnd
    IN  [maxTime |-> maxTime,
         timeDiff |-> timeDiff,
         totalTime |-> totalTime,
         score |-> 10 * maxTime - timeDiff * balanceWeight,
         balanceScore |-> BalanceScore(timeDiff, maxTime)] @@ station

\* mutant: the weight is applied to the longer leg
Scored_WeightOnMax(station) ==
    LET maxTime == Max2(station.timeFromStart, station.timeToEnd)
        timeDiff == Abs(station.timeFromStart - station.timeToEnd)
        totalTime == station.timeFromStart + station.timeToEnd
    IN  [maxTime |-> maxTime,
         timeDiff |-> timeDiff,
         totalTime |-> totalTime,
         score |-> maxTime * balanceWeight + 10 * timeDiff,
         balanceScore |-> BalanceScore(timeDiff, maxTime)] @@ station

\* the object rankStations maps a timed station to (score in tenths)
Scored(station) ==
    LET maxTime == Max2(station.timeFromStart, station.timeToEnd)
        timeDiff == Abs(station.timeFromStart - station.timeToEnd)
        totalTime == station.timeFromStart + station.timeToEnd
    IN  [maxTime |-> maxTime,
         timeDiff |-> timeDiff,
         totalTime |-> totalTime,
         score |-> 10 * maxTime + timeDiff * balanceWeight,
         balanceScore |-> BalanceScore(timeDiff, maxTime)] @@ station

\* mutant: the scored stations are returned unsorted
rankStations_NoSort(stations) ==
    [k \in 1..Len(stations) |-> Scored(stations[k])]

rankStations(stations) ==
    ArraySort([k \in 1..Len(stations) |-> Scored(stations[k])], "score")

(***************************************************************************)
(* The state of one run of findMiddleStations.                             *)
(***************************************************************************)
VARIABLES
    pc,             \* where the run is suspended
    pending,        \* what the sequential code awaits: a call or a delay
    startLocation,  \* const startLocation
    endLocation,    \* const endLocation
    mainRoute,      \* const mainRoute
    candidateSet,   \* the Map of extractCandidateStations
    startNearby,    \* const startNearby
    candidates,     \* const candidates
    i,              \* loop variable of calculateTravelTimes
    batch,          \* the async closures of the current batch, in batch order
    results,        \* const results of calculateTravelTimes
    outcome,        \* how the promise of findMiddleStations settled
    issued,         \* history: number of external calls issued, by kind
    timingOf,       \* history: what became of the timing of each candidate
    found,          \* history: the names the nearby searches answered with
    rankedStations, \* const rankedStations
    discovered      \* history: the names of candidateSet, in insertion order

(***************************************************************************)
(* What lies around one run: the backend's late answers, a second run on   *)
(* the same StationFinder, and the page (SubwayFinderApp, the DOM it       *)
(* writes, MapView and localStorage).                                      *)
(***************************************************************************)
VARIABLES
    expired,        \* history: the calls a timer rejected, and whether the
                    \* backend has answered them since
    parked,         \* the locals of the other run on the StationFinder
    app,            \* SubwayFinderApp: currentResult, searchHistory
    page,           \* the DOM elements the app writes, and mapView.markers
    storage,        \* localStorage: the saved search history
    searches,       \* the handleSearch invocations awaiting
                    \* findMiddleStations, in the order they started
    lastCall,       \* history: the latest call of handleSearch that got to
                    \* findMiddleStations, or of saveToHistory on its own
    erred           \* history: the nearby searches that ended with an error
                    \* status (kept up to the return of
                    \* extractCandidateStations)

(***************************************************************************)
(* One autocomplete input of the page (initAutoComplete).                  *)
(***************************************************************************)
VARIABLES
    controller,     \* the controller object, with the value of its input
                    \* and the display of its dropdown and of the three
                    \* elements in it
    timers,         \* the debounce timers of the input that are pending
    requests,       \* the getSuggestions calls awaiting their answer
    typing          \* history: the number of input events, the keyword of
                    \* the latest one, and the keyword the stored
                    \* suggestions were fetched for

acVars == <<controller, timers, requests, typing>>

appVars == <<app, page, storage, searches, lastCall, acVars>>

\* debounceTimer: null
NoTimer == 0

\* the controller object initAutoComplete creates, its input empty and its
\* dropdown closed; indexes are those of the code (the first item is 0)
NewController ==
    [input |-> <<>>,
     selectedLocation |-> <<>>,
     dropdown |-> "none",
     loadingEl |-> "none",
     listEl |-> "none",
     emptyEl |-> "none",
     items |-> 0,
     active |-> 0 - 1,
     debounceTimer |-> NoTimer,
     currentIndex |-> 0 - 1,
     suggestions |-> <<>>]

\* no second run
NoRun == [pc |-> "none"]

\* this.currentResult = null
NoResult == [isNull |-> TRUE]

\* localStorage.getItem answers null
NoItem == <<>>

NoOperation == [op |-> "none"]

\* the page before any search: every section hidden, the button enabled
BlankPage ==
    [searchBtnDisabled |-> FALSE,
     errorText |-> "",
     errorShown |-> FALSE,
     hideTimers |-> 0,
     resultsShown |-> FALSE,
     resultsList |-> <<>>,
     historyShown |-> FALSE,
     historyList |-> <<>>,
     markers |-> <<>>]

\* updateHistoryDisplay: an empty history hides the section and leaves the
\* list as it is; otherwise the list is rebuilt, one item per entry
updateHistoryDisplay(dom, searchHistory) ==
    IF Len(searchHistory) = 0
    THEN [dom EXCEPT !.historyShown = FALSE]
    ELSE [dom EXCEPT !.historyShown = TRUE,
                     !.historyList = [k \in 1..Len(searchHistory) |->
                                        <<searchHistory[k].start,
                                          searchHistory[k].end>>]]

\* loadSearchHistory: a saved list replaces the empty history and is shown
\* (JSON.parse of what JSON.stringify wrote is the list itself)
loadSearchHistory(saved) == IF saved # NoItem THEN saved ELSE <<>>

\* new SubwayFinderApp() and its init() on a page with the item saved
Loaded(saved) ==
    /\ app = [currentResult |-> NoResult,
              searchHistory |-> loadSearchHistory(saved)]
    /\ page = IF saved # NoItem
              THEN updateHistoryDisplay(BlankPage, loadSearchHistory(saved))
              ELSE BlankPage
    /\ storage = saved
    /\ searches = <<>>
    /\ lastCall = NoOperation
    /\ controller = NewController
    /\ timers = {}
    /\ requests = {}
    /\ typing = [count |-> 0, keyword |-> <<>>, answered |-> <<>>]

\* the first visit: nothing is saved
AppLoaded == Loaded(NoItem)

vars == <<pc, pending, startLocation, endLocation, mainRoute, candidateSet,
          startNearby, candidates, i, batch, results, outcome, issued,
          timingOf, found, balanceWeight,
          rankedStations, discovered, expired, parked, appVars, erred>>

NoCall == [kind |-> "none", timer |-> FALSE]

\* await this.api.delay(ms) of the sequential code: a timer and nothing else
Delay(ms) == [kind |-> "delay", timer |-> TRUE, ms |-> ms]

NoLocation == [via |-> "none"]

NoRoute == [duration |-> NaN, allSubwayStations |-> <<>>]

NothingFound == [nearbyMid |-> <<>>, nearbyStart |-> <<>>, nearbyEnd |-> <<>>]

CallKinds == {"geocoder", "placeSearch", "mainRoute", "nearby", "candidateRoute"}

Count(kind) == [issued EXCEPT ![kind] = @ + 1]

\* geocodeWithGeocoder, geocodeWithPlaceSearch, getTransitRoute: the call
\* sets a timer that rejects it
TimedCall(kind) == [kind |-> kind, timer |-> TRUE]

\* searchNearbySubwayStations(location, radius): the call sets no timer
NearbySearch(location, radius) ==
    [kind |-> "nearby", timer |-> FALSE, center |-> [lat |-> location.lat],
     radius |-> radius]

\* the errors findMiddleStations can reject with
GeocodeError(address) == <<"geocode failed", address>>

MainRouteError == <<"no route">>

NoCandidatesError == <<"no candidates">>

Init ==
    /\ pc = "geocodeStart"
    /\ pending = TimedCall("geocoder")
    /\ startLocation = NoLocation
    /\ endLocation = NoLocation
    /\ mainRoute = NoRoute
    /\ candidateSet = <<>>
    /\ startNearby = <<>>
    /\ candidates = <<>>
    /\ i = 0
    /\ batch = <<>>
    /\ results = <<>>
    /\ outcome = [status |-> "pending"]
    /\ issued = [k \in CallKinds |-> IF k = "geocoder" THEN 1 ELSE 0]
    /\ timingOf = <<>>
    /\ found = NothingFound
    /\ balanceWeight = BALANCE_WEIGHT_TENTHS
    /\ rankedStations = <<>>
    /\ discovered = <<>>
    /\ expired = {}
    /\ parked = NoRun
    /\ erred = {}
    /\ AppLoaded

\* catch (error) { throw error } of findMiddleStations
Reject(error) ==
    /\ pc' = "done"
    /\ pending' = NoCall
    /\ outcome' = [status |-> "rejected", error |-> error]

(***************************************************************************)
(* Steps 1 and 2: geocode(start), geocode(end), the main route.            *)
(***************************************************************************)
Geocoding == pc \in {"geocodeStart", "geocodeEnd"}

CurrentAddress == IF pc = "geocodeStart" THEN StartAddress ELSE EndAddress

\* geocode resolved with a location: the run goes on to the next call
GeocodeResolved(via) ==
    LET location == [lat |-> GeoLat(CurrentAddress, via), via |-> via]
    IN  IF pc = "geocodeStart"
        THEN /\ startLocation' = location
             /\ pc' = "geocodeEnd"
             /\ pending' = TimedCall("geocoder")
             /\ issued' = Count("geocoder")
             /\ UNCHANGED <<endLocation, outcome>>
        ELSE /\ endLocation' = location
             /\ pc' = "mainRoute"
             /\ pending' = TimedCall("mainRoute")
             /\ issued' = Count("mainRoute")
             /\ UNCHANGED <<startLocation, outcome>>

\* mutant: geocode throws without trying PlaceSearch
GeocoderRejected_NoFallback ==
    /\ pc' = "done"
    /\ pending' = NoCall
    /\ outcome' = [status |-> "rejected", error |-> GeocodeError(CurrentAddress)]
    /\ UNCHANGED <<startLocation, endLocation, issued>>

\* geocodeWithGeocoder rejected: geocode falls back to PlaceSearch
GeocoderRejected ==
    /\ pending' = TimedCall("placeSearch")
    /\ issued' = Count("placeSearch")
    /\ UNCHANGED <<pc, startLocation, endLocation, outcome>>

\* geocodeWithPlaceSearch rejected: geocode throws, findMiddleStations rethrows
PlaceSearchRejected ==
    /\ Reject(GeocodeError(CurrentAddress))
    /\ UNCHANGED <<startLocation, endLocation, issued>>

\* mutant: resolve and reject settle a promise whatever its state
Settle_Again(promise, state) == state

\* resolve(value) / reject(error) of a promise: only a pending one settles
Settle(promise, state) == IF promise = "pending" THEN state ELSE promise

\* the timer of a call fired before its callback: reject(new Error(...)).
\* history, kept by the specifications that follow the late answers (keep):
\* the call (who: the candidate of a station query, leg: 1 for the start
\* address or the start -> station query, 2 for the end address or the
\* station -> end query)
Expire(keep, kind, who, leg) ==
    expired' = IF keep
               THEN expired \cup {[kind |-> kind, who |-> who, leg |-> leg,
                                   promise |-> Settle("pending", "rejected"),
                                   answered |-> FALSE]}
               ELSE expired

GeocodeLeg == IF pc = "geocodeStart" THEN 1 ELSE 2

GeocoderComplete ==
    /\ Geocoding /\ pending.kind = "geocoder"
    /\ GeocodeResolved("geocoder")
    /\ UNCHANGED <<mainRoute, candidateSet, startNearby, candidates, i, batch,
                   results, timingOf, found, balanceWeight,
                   rankedStations, discovered, expired, parked,
                   appVars, erred>>

GeocoderError ==
    /\ Geocoding /\ pending.kind = "geocoder"
    /\ GeocoderRejected
    /\ UNCHANGED <<mainRoute, candidateSet, startNearby, candidates, i, batch,
                   results, timingOf, found, balanceWeight,
                   rankedStations, discovered, expired, parked,
                   appVars, erred>>

GeocoderTimeout(keep) ==
    /\ Geocoding /\ pending.kind = "geocoder" /\ pending.timer
    /\ GeocoderRejected
    /\ Expire(keep, "geocoder", 0, GeocodeLeg)
    /\ UNCHANGED <<mainRoute, candidateSet, startNearby, candidates, i, batch,
                   results, timingOf, found, balanceWeight,
                   rankedStations, discovered, parked, appVars, erred>>

PlaceSearchComplete ==
    /\ Geocoding /\ pending.kind = "placeSearch"
    /\ GeocodeResolved("placeSearch")
    /\ UNCHANGED <<mainRoute, candidateSet, startNearby, candidates, i, batch,
                   results, timingOf, found, balanceWeight,
                   rankedStations, discovered, expired, parked,
                   appVars, erred>>

PlaceSearchError ==
    /\ Geocoding /\ pending.kind = "placeSearch"
    /\ PlaceSearchRejected
    /\ UNCHANGED <<mainRoute, candidateSet, startNearby, candidates, i, batch,
                   results, timingOf, found, balanceWeight,
                   rankedStations, discovered, expired, parked,
                   appVars, erred>>

PlaceSearchTimeout(keep) ==
    /\ Geocoding /\ pending.kind = "placeSearch" /\ pending.timer
    /\ PlaceSearchRejected
    /\ Expire(keep, "placeSearch", 0, GeocodeLeg)
    /\ UNCHANGED <<mainRoute, candidateSet, startNearby, candidates, i, batch,
                   results, timingOf, found, balanceWeight,
                   rankedStations, discovered, parked, appVars, erred>>

\* the main route arrived: extractCandidateStations runs strategy 1 and
\* issues the nearby search around the midpoint
MainRouteComplete ==
    /\ pc = "mainRoute" /\ pending.kind = "mainRoute"
    /\ \E raw \in MainRawTimes,
          stops \in SeqsUpTo(RouteNames(startLocation, endLocation),
                             MaxListLen) :
          LET route == RouteData(raw, stops)
          IN  /\ mainRoute' = route
              /\ candidateSet' = AddRouteStations(<<>>, route.allSubwayStations)
    /\ pc' = "nearbyMid"
    /\ pending' = NearbySearch(calculateMidpoint(startLocation, endLocation),
                               SEARCH_RADIUS)
    /\ issued' = Count("nearby")
    /\ UNCHANGED <<startLocation, endLocation, startNearby, candidates, i,
                   batch, results, outcome, timingOf, found, balanceWeight,
                   rankedStations, discovered, expired, parked,
                   appVars, erred>>

\* mutant: the failure of the main route is swallowed and the run goes on
\* with an empty route
MainRouteRejected_Continue ==
    /\ mainRoute' = RouteData(NaN, <<>>)
    /\ pc' = "nearbyMid"
    /\ pending' = NearbySearch(calculateMidpoint(startLocation, endLocation),
                               SEARCH_RADIUS)
    /\ issued' = Count("nearby")
    /\ UNCHANGED <<startLocation, endLocation, candidateSet, startNearby,
                   candidates, i, batch, results, outcome, timingOf, found,
                   balanceWeight, rankedStations, discovered, parked,
                   appVars, erred>>

\* getTransitRoute rejected: findMiddleStations rethrows
MainRouteRejected ==
    /\ Reject(MainRouteError)
    /\ UNCHANGED <<startLocation, endLocation, mainRoute, candidateSet,
                   startNearby, candidates, i, batch, results, issued,
                   timingOf, found, balanceWeight,
                   rankedStations, discovered, parked, appVars, erred>>

MainRouteFailed ==
    /\ pc = "mainRoute" /\ pending.kind = "mainRoute"
    /\ MainRouteRejected
    /\ UNCHANGED expired

MainRouteTimeout(keep) ==
    /\ pc = "mainRoute" /\ pending.kind = "mainRoute" /\ pending.timer
    /\ MainRouteRejected
    /\ Expire(keep, "mainRoute", 0, 0)

(***************************************************************************)
(* Step 3: extractCandidateStations, resumed by the three nearby searches. *)
(***************************************************************************)
\* the values Math.random() can return (0 <= random < 1), in thousandths
RandomSamples == {0, 999}

\* Math.random() * 200 + 100, in whole ms
Jitter(random) == (random * 200) \div 1000 + 100

\* a closure of batchPromises that has just been called: it waits its jitter
\* (waited: history, the ms of the delay the closure awaited last; order:
\* history, the rank of the closure among the settled of its batch)
NewClosure(station) ==
    [station |-> station, at |-> "jitter", timer |-> FALSE, waited |-> 0,
     routeFromStart |-> NoRoute, routeToEnd |-> NoRoute, order |-> 0]

\* candidates.slice(idx, idx + batchSize).map(async station => ...)
NewBatch(cands, idx) ==
    LET slice == SubSeq(cands, idx + 1, Min2(idx + batchSize, Len(cands)))
    IN  [k \in 1..Len(slice) |-> NewClosure(slice[k])]

\* history: the candidates of the batch that starts at idx are started
MarkStarted(marks, idx) ==
    [k \in 1..Len(marks) |->
        IF idx < k /\ k <= idx + batchSize THEN "started" ELSE marks[k]]

\* mutant: the search around the end is issued before that around the start
NearbyMidResolved_EndFirst(stations) ==
    /\ candidateSet' = AddFoundStations(candidateSet, stations, "nearby")
    /\ pc' = "nearbyStart"
    /\ pending' = NearbySearch(endLocation, ENDPOINT_RADIUS)
    /\ issued' = Count("nearby")
    /\ UNCHANGED <<startNearby, candidates, i, batch, results, outcome,
                   timingOf, discovered>>

\* strategy 2, then the search around the start is issued
NearbyMidResolved(stations) ==
    /\ candidateSet' = AddFoundStations(candidateSet, stations, "nearby")
    /\ pc' = "nearbyStart"
    /\ pending' = NearbySearch(startLocation, ENDPOINT_RADIUS)
    /\ issued' = Count("nearby")
    /\ UNCHANGED <<startNearby, candidates, i, batch, results, outcome,
                   timingOf, discovered>>

\* the search around the end is issued
NearbyStartResolved(stations) ==
    /\ startNearby' = stations
    /\ pc' = "nearbyEnd"
    /\ pending' = NearbySearch(endLocation, ENDPOINT_RADIUS)
    /\ issued' = Count("nearby")
    /\ UNCHANGED <<candidateSet, candidates, i, batch, results, outcome,
                   timingOf, discovered>>

\* mutant: the check of an empty candidate list is missing
AfterExtraction_NoCheck(cands) ==
    /\ pc' = "timing"
    /\ pending' = NoCall
    /\ i' = 0
    /\ batch' = NewBatch(cands, 0)
    /\ results' = <<>>
    /\ timingOf' = MarkStarted([k \in 1..Len(cands) |-> "waiting"], 0)
    /\ UNCHANGED outcome

\* findMiddleStations after extractCandidateStations returned: it throws on
\* an empty list, or calls calculateTravelTimes, which starts its first batch
AfterExtraction(cands) ==
    IF Len(cands) = 0
    THEN /\ Reject(NoCandidatesError)
         /\ UNCHANGED <<i, batch, results, timingOf>>
    ELSE /\ pc' = "timing"
         /\ pending' = NoCall
         /\ i' = 0
         /\ batch' = NewBatch(cands, 0)
         /\ results' = <<>>
         /\ timingOf' = MarkStarted([k \in 1..Len(cands) |-> "waiting"], 0)
         /\ UNCHANGED outcome

\* strategy 3 and the pruning; extractCandidateStations returns (its locals
\* candidateSet and startNearby are gone)
NearbyEndResolved(stations) ==
    \E merged \in {AddFoundStations(candidateSet, startNearby \o stations,
                                    "endpoint")} :
      \E cands \in {PruneCandidates(merged,
                        calculateMidpoint(startLocation, endLocation))} :
        /\ candidateSet' = <<>>
        /\ startNearby' = <<>>
        /\ discovered' = [k \in 1..Len(merged) |-> merged[k].name]
        /\ candidates' = cands
        /\ AfterExtraction(cands)
        /\ UNCHANGED issued

NearbyPending ==
    /\ pc \in {"nearbyMid", "nearbyStart", "nearbyEnd"}
    /\ pending.kind = "nearby"

NearbyResolved(stations) ==
    /\ NearbyPending
    /\ CASE pc = "nearbyMid" -> NearbyMidResolved(stations)
         [] pc = "nearbyStart" -> NearbyStartResolved(stations)
         [] pc = "nearbyEnd" -> NearbyEndResolved(stations)
    /\ UNCHANGED <<startLocation, endLocation, mainRoute, balanceWeight,
                   rankedStations, expired, parked, appVars>>

\* the POI lists the search in flight can be answered with
PoiLists ==
    SeqsUpTo(NearbyNames(pending.center, pending.radius), MaxListLen)

\* status 'complete' with a POI list
NearbyComplete ==
    /\ NearbyPending
    /\ \E pois \in PoiLists : NearbyResolved(PoiStations(pois, pending.center))
    /\ UNCHANGED <<found, erred>>

\* status 'no_data': resolve([])
NearbyNoData == NearbyResolved(<<>>) /\ UNCHANGED <<found, erred>>

\* any other status: resolve([])
NearbyError == NearbyResolved(<<>>) /\ UNCHANGED <<found, erred>>

(***************************************************************************)
(* Step 4: calculateTravelTimes.                                           *)
(***************************************************************************)
Closures == 1..Len(batch)

Settled(closure) == closure.at \in {"returned", "null"}

\* closure j of the batch moves on; history: mark is what became of its
\* candidate, which is candidates[i + j]
SetClosure(j, closure, mark) ==
    /\ batch' = [batch EXCEPT ![j] = closure]
    /\ timingOf' = [timingOf EXCEPT ![i + j] = mark]
    /\ UNCHANGED <<pc, pending, startLocation, endLocation, mainRoute,
                   candidateSet, startNearby, candidates, i, results, outcome,
                   found, balanceWeight,
                   rankedStations, discovered, parked, appVars, erred>>

\* history: the rank of a closure that settles now
Ranked(closure) ==
    [closure EXCEPT
        !.order = Cardinality({k \in Closures : Settled(batch[k])}) + 1]

\* await delay(Math.random() * 200 + 100) is over: the start -> station query
\* is issued
JitterDone(j) ==
    /\ pc = "timing" /\ batch[j].at = "jitter"
    /\ \E random \in RandomSamples :
          SetClosure(j, [batch[j] EXCEPT !.at = "routeFromStart",
                                         !.timer = TRUE,
                                         !.waited = Jitter(random)],
                     "started")
    /\ issued' = Count("candidateRoute")
    /\ UNCHANGED expired

\* the query completed (one with a station that has no coordinate cannot)
RouteFromStartComplete(j) ==
    /\ pc = "timing" /\ batch[j].at = "routeFromStart"
    /\ HasLat(batch[j].station)
    /\ SetClosure(j, [batch[j] EXCEPT
            !.at = "delay", !.timer = FALSE,
            !.routeFromStart =
                RouteData(RawTimeFromStart(batch[j].station.name), <<>>)],
            "started")
    /\ UNCHANGED <<issued, expired>>

\* mutant: a closure whose second query failed returns what it has
Dropped_KeepPartial(closure) ==
    [closure EXCEPT
        !.at = IF closure.at = "routeToEnd" THEN "returned" ELSE "null",
        !.timer = FALSE]

\* mutant: a closure whose query failed starts over
Dropped_Retry(closure) == [closure EXCEPT !.at = "jitter", !.timer = FALSE]

\* mutant: the failure of the first query is swallowed and the closure goes
\* on to its second query
Dropped_GoOn(closure) ==
    [closure EXCEPT
        !.at = IF closure.at = "routeFromStart" THEN "delay" ELSE "null",
        !.timer = FALSE]

\* catch (error) { return null }
Dropped(closure) == [closure EXCEPT !.at = "null", !.timer = FALSE]

RouteFromStartError(j) ==
    /\ pc = "timing" /\ batch[j].at = "routeFromStart"
    /\ SetClosure(j, Ranked(Dropped(batch[j])), "dropped1")
    /\ UNCHANGED <<issued, expired>>

RouteFromStartTimeout(j, keep) ==
    /\ pc = "timing" /\ batch[j].at = "routeFromStart" /\ batch[j].timer
    /\ SetClosure(j, Ranked(Dropped(batch[j])), "dropped1")
    /\ UNCHANGED issued
    /\ Expire(keep, "candidateRoute", i + j, 1)

\* await delay(300) is over: the station -> end query is issued
DelayDone(j) ==
    /\ pc = "timing" /\ batch[j].at = "delay"
    /\ SetClosure(j, [batch[j] EXCEPT !.at = "routeToEnd", !.timer = TRUE,
                                       !.waited = QUERY_DELAY],
                  "started")
    /\ issued' = Count("candidateRoute")
    /\ UNCHANGED expired

RouteToEndComplete(j) ==
    /\ pc = "timing" /\ batch[j].at = "routeToEnd"
    /\ HasLat(batch[j].station)
    /\ SetClosure(j, Ranked([batch[j] EXCEPT
            !.at = "returned", !.timer = FALSE,
            !.routeToEnd =
                RouteData(RawTimeToEnd(batch[j].station.name), <<>>)]),
            "timed")
    /\ UNCHANGED <<issued, expired>>

RouteToEndError(j) ==
    /\ pc = "timing" /\ batch[j].at = "routeToEnd"
    /\ SetClosure(j, Ranked(Dropped(batch[j])), "dropped2")
    /\ UNCHANGED <<issued, expired>>

RouteToEndTimeout(j, keep) ==
    /\ pc = "timing" /\ batch[j].at = "routeToEnd" /\ batch[j].timer
    /\ SetClosure(j, Ranked(Dropped(batch[j])), "dropped2")
    /\ UNCHANGED issued
    /\ Expire(keep, "candidateRoute", i + j, 2)

\* the object a closure returns after its two queries
TimedStation(closure) ==
    [timeFromStart |-> closure.routeFromStart.duration,
     timeToEnd |-> closure.routeToEnd.duration,
     routeFromStart |-> closure.routeFromStart,
     routeToEnd |-> closure.routeToEnd] @@ closure.station

\* mutant: the results are pushed in the order the closures settled
BatchResults_CompletionOrder(closures) ==
    LET byOrder == ArraySort(closures, "order")
        returned == SelectSeq(byOrder, LAMBDA c : c.at = "returned")
    IN  [k \in 1..Len(returned) |-> TimedStation(returned[k])]

\* mutant: one failed closure makes the whole batch yield nothing
BatchResults_AllOrNothing(closures) ==
    IF \E k \in 1..Len(closures) : closures[k].at = "null"
    THEN <<>>
    ELSE [k \in 1..Len(closures) |-> TimedStation(closures[k])]

\* batchResults.filter(r => r !== null): the values of Promise.all are in
\* the order of the batch
RECURSIVE BatchResults(_)
BatchResults(closures) ==
    IF closures = <<>> THEN <<>>
    ELSE (IF Head(closures).at = "returned"
          THEN <<TimedStation(Head(closures))>> ELSE <<>>)
         \o BatchResults(Tail(closures))

\* mutant: the batch is over as soon as one closure has returned
AnySettled == \E j \in Closures : Settled(batch[j])

\* Promise.all(batchPromises) resolves when every closure has returned
AllSettled == \A j \in Closures : Settled(batch[j])

\* mutant: totalCandidates counts the stations that were timed
Resolution_CountsTimed(timed) ==
    [startLocation |-> startLocation @@ ("address" :> StartAddress),
     endLocation |-> endLocation @@ ("address" :> EndAddress),
     mainRoute |-> mainRoute,
     recommendations |-> Slice(rankStations(timed), MAX_RESULTS),
     totalCandidates |-> Len(timed)]

\* steps 5 and 6 and the value findMiddleStations returns
Resolution(timed) ==
    [startLocation |-> startLocation @@ ("address" :> StartAddress),
     endLocation |-> endLocation @@ ("address" :> EndAddress),
     mainRoute |-> mainRoute,
     recommendations |-> Slice(rankStations(timed), MAX_RESULTS),
     totalCandidates |-> Len(candidates)]

\* mutant: the wait is made after a batch that ends the list too
MoreBatches_Inclusive == i + batchSize <= Len(candidates)

\* if (i + batchSize < candidates.length)
MoreBatches == i + batchSize < Len(candidates)

\* Promise.all resolved: the results are pushed; either the run waits 800 ms
\* for the next batch, or the loop ends and findMiddleStations returns
BatchSettled ==
    /\ pc = "timing"
    /\ AllSettled
    /\ results' = results \o BatchResults(batch)
    /\ batch' = <<>>
    /\ IF MoreBatches
       THEN /\ pc' = "batchDelay"
            /\ pending' = Delay(BATCH_DELAY)
            /\ UNCHANGED <<outcome, rankedStations>>
       ELSE /\ pc' = "done"
            /\ rankedStations' = rankStations(results')
            /\ outcome' = [status |-> "resolved",
                           value |-> Resolution(results')]
            /\ UNCHANGED pending
    /\ UNCHANGED <<startLocation, endLocation, mainRoute,
                   candidateSet, startNearby, candidates, i, issued, timingOf,
                   found, balanceWeight, discovered, expired, parked,
                   appVars, erred>>

\* await delay(800) is over: i += batchSize and the next batch starts
BatchDelayDone ==
    /\ pc = "batchDelay" /\ pending.kind = "delay"
    /\ pending' = NoCall
    /\ i' = i + batchSize
    /\ batch' = NewBatch(candidates, i')
    /\ timingOf' = MarkStarted(timingOf, i')
    /\ pc' = "timing"
    /\ UNCHANGED <<startLocation, endLocation, mainRoute,
                   candidateSet, startNearby, candidates, results, outcome,
                   issued, found, balanceWeight,
                   rankedStations, discovered, expired, parked,
                   appVars, erred>>

Next ==
    \/ GeocoderComplete
    \/ GeocoderError
    \/ GeocoderTimeout(FALSE)
    \/ PlaceSearchComplete
    \/ PlaceSearchError
    \/ PlaceSearchTimeout(FALSE)
    \/ MainRouteComplete
    \/ MainRouteFailed
    \/ MainRouteTimeout(FALSE)
    \/ NearbyComplete
    \/ NearbyNoData
    \/ NearbyError
    \/ \E j \in Closures : JitterDone(j)
    \/ \E j \in Closures : RouteFromStartComplete(j)
    \/ \E j \in Closures : RouteFromStartError(j)
    \/ \E j \in Closures : RouteFromStartTimeout(j, FALSE)
    \/ \E j \in Closures : DelayDone(j)
    \/ \E j \in Closures : RouteToEndComplete(j)
    \/ \E j \in Closures : RouteToEndError(j)
    \/ \E j \in Closures : RouteToEndTimeout(j, FALSE)
    \/ BatchSettled
    \/ BatchDelayDone

\* one run of findMiddleStations
Spec == Init /\ [][Next]_vars

(***************************************************************************)
(* The run up to the return of extractCandidateStations, with the answers  *)
(* of the three nearby searches kept as history.                           *)
(***************************************************************************)
Remember(names) == found' = [found EXCEPT ![pc] = names]

CollectNearbyComplete ==
    /\ NearbyPending
    /\ \E pois \in PoiLists :
          NearbyResolved(PoiStations(pois, pending.center)) /\ Remember(pois)
    /\ UNCHANGED erred

CollectNearbyNoData ==
    NearbyResolved(<<>>) /\ Remember(<<>>) /\ UNCHANGED erred

\* mutant: an error status of the nearby search rejects the promise, and
\* the run with it
CollectNearbyError_Rejects ==
    /\ NearbyPending
    /\ Reject(<<"nearby search failed">>)
    /\ erred' = erred \cup {pc}
    /\ UNCHANGED <<startLocation, endLocation, mainRoute, candidateSet,
                   startNearby, candidates, i, batch, results, issued,
                   timingOf, found, balanceWeight, rankedStations, discovered,
                   expired, parked, appVars>>

\* history: the search of this step ended with an error status
CollectNearbyError ==
    NearbyResolved(<<>>) /\ Remember(<<>>) /\ erred' = erred \cup {pc}

NextCollect ==
    \/ GeocoderComplete
    \/ GeocoderError
    \/ GeocoderTimeout(FALSE)
    \/ PlaceSearchComplete
    \/ PlaceSearchError
    \/ PlaceSearchTimeout(FALSE)
    \/ MainRouteComplete
    \/ MainRouteFailed
    \/ MainRouteTimeout(FALSE)
    \/ CollectNearbyComplete
    \/ CollectNearbyNoData
    \/ CollectNearbyError

SpecCollect == Init /\ [][NextCollect]_vars

(***************************************************************************)
(* Steps 5 and 6 of findMiddleStations on any list of timed stations and   *)
(* with any balance weight.                                                *)
(***************************************************************************)
\* the balance weights, in tenths (the configuration documents 0 to 1)
RankWeights == {0, 1, 3, 5, 10}

\* the pairs <<timeFromStart, timeToEnd>> of a timed station
TimePairs == (0..MaxTime) \X (0..MaxTime)

\* the two candidates 500/700 and 300/900, in both input orders
ScenarioPairs ==
    { << <<500, 700>>, <<300, 900>> >>, << <<300, 900>>, <<500, 700>> >> }

\* station k as calculateTravelTimes returns it with the two plan.time
RankInput(k, rawFromStart, rawToEnd) ==
    TimedStation([station |-> Spread(PoiStation(k, [lat |-> StationLat(k)]),
                                     "source", "nearby"),
                  routeFromStart |-> RouteData(rawFromStart, <<>>),
                  routeToEnd |-> RouteData(rawToEnd, <<>>)])

InputFrom(pairs) ==
    [k \in 1..Len(pairs) |-> RankInput(k, pairs[k][1], pairs[k][2])]

RankInputs ==
    {InputFrom(pairs) : pairs \in SeqsUpTo(TimePairs, MaxRanked) \cup ScenarioPairs}

InitRank ==
    /\ pc = "ranking"
    /\ pending = NoCall
    /\ startLocation = NoLocation
    /\ endLocation = NoLocation
    /\ mainRoute = NoRoute
    /\ candidateSet = <<>>
    /\ startNearby = <<>>
    /\ candidates = <<>>
    /\ i = 0
    /\ batch = <<>>
    /\ results \in RankInputs
    /\ outcome = [status |-> "pending"]
    /\ issued = [k \in CallKinds |-> 0]
    /\ timingOf = <<>>
    /\ found = NothingFound
    /\ balanceWeight \in RankWeights
    /\ rankedStations = <<>>
    /\ discovered = <<>>
    /\ expired = {}
    /\ parked = NoRun
    /\ erred = {}
    /\ AppLoaded

\* rankStations(stationsWithTime), slice(0, MAX_RESULTS), return
RankAndReturn ==
    /\ pc = "ranking"
    /\ rankedStations' = rankStations(results)
    /\ outcome' = [status |-> "resolved", value |-> Resolution(results)]
    /\ pc' = "done"
    /\ UNCHANGED <<pending, startLocation, endLocation, mainRoute,
                   candidateSet, startNearby, candidates, i, batch, results,
                   issued, timingOf, found, balanceWeight, discovered,
                   expired, parked, appVars, erred>>

NextRank == RankAndReturn

SpecRank == InitRank /\ [][NextRank]_vars

(***************************************************************************)
(* Properties.                                                             *)
(***************************************************************************)
NamesOf(stations) == [k \in 1..Len(stations) |-> stations[k].name]

NoDuplicateNames(stations) ==
    \A a, b \in 1..Len(stations) :
        a # b => stations[a].name # stations[b].name

RepeatsAName(names) ==
    \E a, b \in 1..Len(names) : a # b /\ names[a] = names[b]

\* the three nearby searches have been answered
Extracted ==
    /\ issued["nearby"] = 3
    /\ pc \notin {"nearbyMid", "nearbyStart", "nearbyEnd"}

\* no strategy found a station
NothingDiscovered ==
    /\ mainRoute.allSubwayStations = <<>>
    /\ found = NothingFound

\* the names the strategies discovered
Discovered ==
    Range(mainRoute.allSubwayStations) \cup Range(found.nearbyMid)
        \cup Range(found.nearbyStart) \cup Range(found.nearbyEnd)

Resolved == outcome.status = "resolved"

Rejected == outcome.status = "rejected"

RejectedWith(error) == Rejected /\ outcome.error = error

Recommendations == outcome.value.recommendations

Candidates == 1..Len(timingOf)

TimedCandidates == {k \in Candidates : timingOf[k] = "timed"}

DroppedCandidates == {k \in Candidates : timingOf[k] \in {"dropped1", "dropped2"}}

\* the durations the backend reports for a station, as getTransitRoute
\* converts them
TimeFromStartOf(n) == OrZero(ParseInt(RawTimeFromStart(n)))

TimeToEndOf(n) == OrZero(ParseInt(RawTimeToEnd(n)))

\* the score (in tenths) of a station with these two durations
ScoreOf(n) ==
    10 * Max2(TimeFromStartOf(n), TimeToEndOf(n))
        + BALANCE_WEIGHT_TENTHS * Abs(TimeFromStartOf(n) - TimeToEndOf(n))

\* the names of the candidates 1..upto that were timed, in candidate order
TimedNames(upto) ==
    LET idx == SelectSeq([k \in 1..upto |-> k],
                         LAMBDA k : timingOf[k] = "timed")
    IN  [r \in 1..Len(idx) |-> candidates[idx[r]].name]

\* C1: the list extractCandidateStations returns, and the Map it is built
\* from, never hold two entries with the same name, whatever the strategies
\* answered (names repeated inside one answer and across answers included).
C1_NoDuplicateNames ==
    /\ NoDuplicateNames(candidateSet)
    /\ NoDuplicateNames(candidates)

\* C1 witness: extraction returned after a nearby answer that repeats a name
\* and a name that the route, the midpoint search and the end search all
\* reported.
C1_Witness ==
    /\ pc = "timing"
    /\ RepeatsAName(found.nearbyMid)
    /\ \E n \in Range(mainRoute.allSubwayStations) :
          n \in Range(found.nearbyMid) /\ n \in Range(found.nearbyEnd)
    /\ Len(candidates) >= 2

\* C2: when the timing of some candidates failed and that of others
\* succeeded, findMiddleStations resolves; its recommendations are the timed
\* candidates with the lowest scores, up to MAX_RESULTS, in score order, and
\* hold no dropped candidate; every candidate was given its turn (none is
\* left waiting or unfinished, each issued at least its first query).
C2_PartialFailure ==
    (pc = "done" /\ TimedCandidates # {} /\ DroppedCandidates # {}) =>
        /\ Resolved
        /\ Len(Recommendations) = Min2(MAX_RESULTS, Cardinality(TimedCandidates))
        /\ \A r \in 1..Len(Recommendations) :
              /\ \E k \in TimedCandidates :
                    candidates[k].name = Recommendations[r].name
              /\ \A k \in DroppedCandidates :
                    candidates[k].name # Recommendations[r].name
              /\ Recommendations[r].score = ScoreOf(Recommendations[r].name)
        /\ \A r, s \in 1..Len(Recommendations) :
              r < s => Recommendations[r].score <= Recommendations[s].score
        /\ \A k \in TimedCandidates :
              \/ candidates[k].name \in Range(NamesOf(Recommendations))
              \/ \A r \in 1..Len(Recommendations) :
                    Recommendations[r].score <= ScoreOf(candidates[k].name)
        /\ Candidates = TimedCandidates \cup DroppedCandidates
        /\ issued["candidateRoute"] >= Len(candidates)

\* C2 witness: the first candidate was dropped, the other member of its
\* batch and the candidate of the next batch were timed.
C2_Witness ==
    /\ pc = "done" /\ Resolved
    /\ Len(candidates) = 3
    /\ timingOf[1] \in {"dropped1", "dropped2"}
    /\ timingOf[2] = "timed"
    /\ timingOf[3] = "timed"
    /\ Len(Recommendations) = 2

\* C3 (as claimed): with candidates found, findMiddleStations rejects with
\* the no-candidates error when no candidate was timed, and resolves when at
\* least one was.
C3_ZeroTimedRejects ==
    (pc = "done" /\ Len(candidates) > 0) =>
        /\ TimedCandidates = {} => RejectedWith(NoCandidatesError)
        /\ TimedCandidates # {} => Resolved

\* C4: when the route has no subway station and the three nearby searches
\* answer nothing, findMiddleStations rejects with the no-candidates error
\* and no closure of calculateTravelTimes is created, so that no
\* per-candidate query is issued; when timing starts, the candidate list is
\* not empty.
C4_NoCandidates ==
    /\ (Extracted /\ NothingDiscovered) =>
          /\ RejectedWith(NoCandidatesError)
          /\ batch = <<>>
          /\ issued["candidateRoute"] = 0
    /\ pc = "timing" => (Len(candidates) > 0 /\ Len(batch) > 0)
    /\ RejectedWith(NoCandidatesError) => (Extracted /\ NothingDiscovered)

\* C4 witness: the run was rejected for want of candidates after the three
\* searches were answered, the geocoder having answered for both addresses.
C4_Witness ==
    /\ RejectedWith(NoCandidatesError)
    /\ Extracted /\ NothingDiscovered
    /\ startLocation.via = "geocoder" /\ endLocation.via = "geocoder"

\* C5, the states: a run rejected by a geocoding failure has issued no
\* later call (for the start address not even the geocoding of the end), a
\* run rejected by the main route has issued no nearby search and no
\* per-candidate query, and nothing is in flight.
C5_NothingIssuedLater ==
    Rejected =>
        /\ pc = "done" /\ pending = NoCall /\ batch = <<>>
        /\ RejectedWith(GeocodeError(StartAddress)) =>
              issued = [k \in CallKinds |->
                           IF k \in {"geocoder", "placeSearch"} THEN 1 ELSE 0]
        /\ RejectedWith(GeocodeError(EndAddress)) =>
              /\ issued["geocoder"] = 2
              /\ issued["mainRoute"] = 0
              /\ issued["nearby"] = 0
              /\ issued["candidateRoute"] = 0
        /\ RejectedWith(MainRouteError) =>
              /\ issued["mainRoute"] = 1
              /\ issued["nearby"] = 0
              /\ issued["candidateRoute"] = 0

\* C5, the steps: the failure of the fallback geocoding rejects the run with
\* the geocoding error of that address, the failure of the main route
\* rejects it with the route error, and a settled run takes no step.
C5_FailureStep ==
    /\ (PlaceSearchError \/ PlaceSearchTimeout(FALSE)) =>
          outcome' = [status |-> "rejected",
                      error |-> GeocodeError(CurrentAddress)]
    /\ (MainRouteFailed \/ MainRouteTimeout(FALSE)) =>
          outcome' = [status |-> "rejected", error |-> MainRouteError]
    /\ outcome.status = "pending"

\* C5: a failure of geocoding or of the main route query rejects
\* findMiddleStations with that error, and no later-phase call is issued.
C5_FatalFailures == []C5_NothingIssuedLater /\ [][C5_FailureStep]_vars

\* C5 witness: the main route failed after the fallback resolved the start.
C5_Witness ==
    /\ RejectedWith(MainRouteError)
    /\ startLocation.via = "placeSearch"
    /\ issued["mainRoute"] = 1

\* C6 (as claimed): every external call in flight has a timer that settles
\* it.
C6_EveryCallHasTimeout ==
    /\ pending.kind # "none" => pending.timer
    /\ \A j \in Closures :
          batch[j].at \in {"routeFromStart", "routeToEnd"} => batch[j].timer

\* the batch of candidate k
BatchOf(k) == (k - 1) \div batchSize

\* C7: at most batchSize timings are in progress, and no candidate of a
\* later batch has started while a candidate of an earlier batch is not
\* settled.
C7_BatchesInSequence ==
    /\ Cardinality({k \in Candidates : timingOf[k] = "started"}) <= batchSize
    /\ Len(batch) <= batchSize
    /\ \A a, b \in Candidates :
          (BatchOf(a) < BatchOf(b) /\ timingOf[b] # "waiting") =>
              timingOf[a] \in {"timed", "dropped1", "dropped2"}
    /\ \A k \in Candidates :
          timingOf[k] = "started" =>
              (pc = "timing" /\ i < k /\ k <= i + Len(batch))

\* C7 witness: the second batch is in progress after a first batch of which
\* one candidate was timed and one dropped.
C7_Witness ==
    /\ pc = "timing" /\ i = batchSize
    /\ Len(timingOf) = 3
    /\ timingOf[3] = "started" /\ batch[1].at = "routeToEnd"
    /\ timingOf[1] = "timed" /\ timingOf[2] = "dropped2"

\* the candidates whose batch has been pushed to results
Pushed ==
    IF pc = "timing" THEN i
    ELSE IF pc = "batchDelay" THEN i + batchSize
    ELSE Len(candidates)

\* a result is its candidate with the durations of that candidate's queries
OwnResult(result, k) ==
    /\ result.name = candidates[k].name
    /\ result.source = candidates[k].source
    /\ result.timeFromStart = TimeFromStartOf(candidates[k].name)
    /\ result.timeToEnd = TimeToEndOf(candidates[k].name)

\* C8: whatever the order in which the closures of a batch settle, results
\* is the candidate sequence without the dropped candidates, in candidate
\* order, and every result carries its own candidate's two durations; the
\* same holds of what a fully settled batch is about to push.
C8_CandidateOrderKept ==
    (pc \in {"timing", "batchDelay"} \/ Resolved) =>
        /\ NamesOf(results) = TimedNames(Pushed)
        /\ \A r \in 1..Len(results) :
              \E k \in TimedCandidates : OwnResult(results[r], k)
        /\ (pc = "timing" /\ AllSettled) =>
              NamesOf(results \o BatchResults(batch))
                  = TimedNames(i + Len(batch))

\* C8 witness: both closures of a batch returned, the second before the
\* first.
C8_Witness ==
    /\ pc = "timing" /\ Len(batch) = 2
    /\ batch[1].at = "returned" /\ batch[2].at = "returned"
    /\ batch[2].order = 1 /\ batch[1].order = 2

\* both timing fields are set, from two answered queries, to numbers >= 0
FullyTimed(result) ==
    /\ {"timeFromStart", "timeToEnd"} \subseteq DOMAIN result
    /\ result.timeFromStart \in Nat
    /\ result.timeToEnd \in Nat
    /\ result.routeFromStart # NoRoute
    /\ result.routeToEnd # NoRoute
    /\ result.timeFromStart = result.routeFromStart.duration
    /\ result.timeToEnd = result.routeToEnd.duration

\* C9: every element of results (and every recommendation) has both
\* timings, set from two answered queries and >= 0; a candidate one of whose
\* queries failed is in neither.
C9_NoPartialTiming ==
    /\ \A r \in 1..Len(results) :
          /\ FullyTimed(results[r])
          /\ \A k \in DroppedCandidates :
                candidates[k].name # results[r].name
    /\ Resolved =>
          \A r \in 1..Len(Recommendations) :
              /\ FullyTimed(Recommendations[r])
              /\ \A k \in DroppedCandidates :
                    candidates[k].name # Recommendations[r].name

\* C9 witness: a candidate was dropped after its first query had succeeded,
\* and a station whose plan.time is missing was timed with 0 and 0.
C9_Witness ==
    /\ Resolved
    /\ \E k \in Candidates : timingOf[k] = "dropped2"
    /\ \E r \in 1..Len(Recommendations) :
          /\ IsNaN(RawTimeFromStart(Recommendations[r].name))
          /\ Recommendations[r].timeFromStart = 0
          /\ Recommendations[r].timeToEnd = 0

\* the distance of a station to the midpoint of the run
DistanceToMidOf(n) ==
    Abs(StationLat(n) - calculateMidpoint(startLocation, endLocation).lat)

\* C10 (as claimed): when more than MAX_CANDIDATES stations are discovered,
\* exactly MAX_CANDIDATES are returned and no discarded station is strictly
\* closer to the midpoint than a retained one.
C10_ClosestRetained ==
    (pc = "timing" /\ Cardinality(Discovered) > MAX_CANDIDATES) =>
        /\ Len(candidates) = MAX_CANDIDATES
        /\ \A d \in Discovered \ Range(NamesOf(candidates)) :
              \A r \in Range(NamesOf(candidates)) :
                  ~(DistanceToMidOf(d) < DistanceToMidOf(r))

\* C11 (as claimed): every candidate handed to calculateTravelTimes carries
\* a coordinate, whichever strategy discovered it first.
C11_CandidatesHaveCoordinate ==
    \A k \in 1..Len(candidates) : HasLat(candidates[k])

\* the strategy that discovered a name first, in the order of the code
FirstFinder(n) ==
    IF n \in Range(mainRoute.allSubwayStations) THEN "route"
    ELSE IF n \in Range(found.nearbyMid) THEN "nearbyMid"
    ELSE IF n \in Range(found.nearbyStart) THEN "nearbyStart"
    ELSE "nearbyEnd"

\* the entry the first discovery of a name writes
FirstEntry(n) ==
    IF n \in Range(mainRoute.allSubwayStations)
    THEN [name |-> n, source |-> "route"]
    ELSE IF n \in Range(found.nearbyMid)
    THEN Spread(PoiStation(n, calculateMidpoint(startLocation, endLocation)),
                "source", "nearby")
    ELSE IF n \in Range(found.nearbyStart)
    THEN Spread(PoiStation(n, startLocation), "source", "endpoint")
    ELSE Spread(PoiStation(n, endLocation), "source", "endpoint")

\* an entry is the one of the first discovery (the pruning adds distanceToMid)
IsFirstEntry(entry) ==
    [f \in DOMAIN entry \ {"distanceToMid"} |-> entry[f]]
        = FirstEntry(entry.name)

\* C12: every entry of the Map, while it is built, and every returned
\* candidate is the entry of the first strategy that discovered its name
\* (route, then midpoint, then start, then end): source tag and attributes
\* are those of the first discovery.
C12_FirstDiscoveryKept ==
    /\ \A k \in 1..Len(candidateSet) : IsFirstEntry(candidateSet[k])
    /\ \A k \in 1..Len(candidates) : IsFirstEntry(candidates[k])

\* C12 witness: extraction returned; a name was found by the route and by
\* the midpoint search, another by the start search and by the end search at
\* different distances, and both are candidates.
C12_Witness ==
    /\ pc = "timing"
    /\ \E n \in Range(NamesOf(candidates)) :
          /\ n \in Range(mainRoute.allSubwayStations)
          /\ n \in Range(found.nearbyMid)
    /\ \E n \in Range(NamesOf(candidates)) :
          /\ FirstFinder(n) = "nearbyStart"
          /\ n \in Range(found.nearbyEnd)
          /\ PoiStation(n, startLocation).distance
                # PoiStation(n, endLocation).distance

SortedByScore(stations) ==
    \A r, s \in 1..Len(stations) :
        r < s => stations[r].score <= stations[s].score

\* C13: the list rankStations returns holds the timed stations it was given,
\* non-decreasing in score, and the recommendations are its first
\* min(MAX_RESULTS, number of timed stations) elements.
C13_SortedAndTruncated ==
    Resolved =>
        /\ SortedByScore(rankedStations)
        /\ Len(rankedStations) = Len(results)
        /\ Range(NamesOf(rankedStations)) = Range(NamesOf(results))
        /\ Len(Recommendations) = Min2(MAX_RESULTS, Len(results))
        /\ Recommendations = SubSeq(rankedStations, 1, Len(Recommendations))

\* C13 witness: more than MAX_RESULTS timed stations were given in strictly
\* decreasing order of score, and MAX_RESULTS are recommended.
C13_Witness ==
    /\ Resolved
    /\ Len(results) > MAX_RESULTS
    /\ Len(Recommendations) = MAX_RESULTS
    /\ \A k \in 1..Len(results) :
          rankedStations[k].name = results[Len(results) + 1 - k].name
    /\ \A k \in 1..(Len(results) - 1) :
          rankedStations[k].score < rankedStations[k + 1].score

\* the position of a name in the list given to rankStations
InputPosition(name) == CHOOSE k \in 1..Len(results) : results[k].name = name

\* r is the timed station s with the fields of the scoring added
HasScoredFields(r, s) ==
    LET a == s.timeFromStart
        b == s.timeToEnd
    IN  /\ r.maxTime = Max2(a, b)
        /\ r.timeDiff = Abs(a - b)
        /\ r.totalTime = a + b
        /\ r.score = 10 * Max2(a, b) + Abs(a - b) * balanceWeight
        /\ DOMAIN r = DOMAIN s \cup {"maxTime", "timeDiff", "totalTime",
                                     "score", "balanceScore"}
        /\ \A f \in DOMAIN s : r[f] = s[f]

C16_ZeroLegsBalanced ==
    \A k \in 1..Len(rankedStations) :
        (rankedStations[k].timeFromStart = 0 /\ rankedStations[k].timeToEnd = 0)
            => /\ rankedStations[k].score = 0
               /\ ~rankedStations[k].balanceScore.nan
               /\ rankedStations[k].balanceScore.num
                    = 100 * rankedStations[k].balanceScore.den

\* C17: with a positive weight, of two stations with the same timeFromStart
\* a and timeToEnd at least a, the one with the longer timeToEnd has the
\* strictly higher score; with weight 0 the score is the longer leg, so that
\* stations with the same longer leg have the same score.
C17_ScoreMonotone ==
    Resolved =>
        \A r, s \in 1..Len(rankedStations) :
            LET x == rankedStations[r]
                y == rankedStations[s]
            IN  /\ ( /\ balanceWeight > 0
                     /\ x.timeFromStart = y.timeFromStart
                     /\ x.timeFromStart <= x.timeToEnd
                     /\ x.timeToEnd < y.timeToEnd ) => x.score < y.score
                /\ balanceWeight = 0 =>
                      x.score = 10 * Max2(x.timeFromStart, x.timeToEnd)
                /\ ( /\ balanceWeight = 0
                     /\ Max2(x.timeFromStart, x.timeToEnd)
                          = Max2(y.timeFromStart, y.timeToEnd) )
                      => x.score = y.score

\* C17 witness: with the largest weight, three stations with the same
\* timeFromStart and growing timeToEnd were ranked.
C17_Witness ==
    /\ Resolved
    /\ balanceWeight = 10
    /\ Len(rankedStations) = 3
    /\ \A k \in 1..2 :
          /\ rankedStations[k].timeFromStart = rankedStations[k + 1].timeFromStart
          /\ rankedStations[k].timeFromStart <= rankedStations[k].timeToEnd
          /\ rankedStations[k].timeToEnd < rankedStations[k + 1].timeToEnd

\* C18: with weight 0.3, P (500, 700) gets score 760 and Q (300, 900) gets
\* score 1080 (7600 and 10800 tenths), and the ranking is [P, Q] for both
\* input orders.
C18_ScenarioRanking ==
    ( /\ Resolved
      /\ balanceWeight = BALANCE_WEIGHT_TENTHS
      /\ results \in {InputFrom(pairs) : pairs \in ScenarioPairs} ) =>
        /\ Len(rankedStations) = 2
        /\ rankedStations[1].timeFromStart = 500
        /\ rankedStations[1].timeToEnd = 700
        /\ rankedStations[1].score = 7600
        /\ rankedStations[2].timeFromStart = 300
        /\ rankedStations[2].timeToEnd = 900
        /\ rankedStations[2].score = 10800
        /\ Recommendations = rankedStations

\* C18 witness: Q came first in the input and P is ranked first.
C18_Witness ==
    /\ Resolved
    /\ balanceWeight = BALANCE_WEIGHT_TENTHS
    /\ Len(results) = 2
    /\ results[1].timeFromStart = 300 /\ results[1].timeToEnd = 900
    /\ results[2].timeFromStart = 500 /\ results[2].timeToEnd = 700
    /\ rankedStations[1].name = results[2].name

\* C19: for legs a, b >= 0 not both 0, balanceScore (the fraction num/den)
\* is a number from 0 to 100, is 100 exactly when a = b and is 0 exactly
\* when one of the legs is 0.
C19_BalanceScoreRange ==
    \A k \in 1..Len(rankedStations) :
        LET a == rankedStations[k].timeFromStart
            b == rankedStations[k].timeToEnd
            balance == rankedStations[k].balanceScore
        IN  (a > 0 \/ b > 0) =>
                /\ ~balance.nan
                /\ balance.den > 0
                /\ 0 <= balance.num /\ balance.num <= 100 * balance.den
                /\ (balance.num = 100 * balance.den) <=> (a = b)
                /\ (balance.num = 0) <=> (a = 0 \/ b = 0)

\* C19 witness: stations with equal legs, with one leg 0, and with two
\* different positive legs were ranked.
C19_Witness ==
    /\ Resolved
    /\ \E k \in 1..Len(rankedStations) :
          /\ rankedStations[k].timeFromStart = rankedStations[k].timeToEnd
          /\ rankedStations[k].timeFromStart > 0
    /\ \E k \in 1..Len(rankedStations) :
          /\ rankedStations[k].timeFromStart = 0
          /\ rankedStations[k].timeToEnd > 0
    /\ \E k \in 1..Len(rankedStations) :
          /\ 0 < rankedStations[k].timeFromStart
          /\ rankedStations[k].timeFromStart < rankedStations[k].timeToEnd
          /\ 0 < rankedStations[k].balanceScore.num
          /\ rankedStations[k].balanceScore.num
                < 100 * rankedStations[k].balanceScore.den

\* the position of a name in the order of discovery
DiscoveryPosition(name) ==
    CHOOSE k \in 1..Len(discovered) : discovered[k] = name

\* C14 (as claimed): recommendations of equal score are in the order in
\* which their stations were discovered, in pruned runs too.
C14_TiesInDiscoveryOrder ==
    Resolved =>
        \A r, s \in 1..Len(Recommendations) :
            (r < s /\ Recommendations[r].score = Recommendations[s].score) =>
                DiscoveryPosition(Recommendations[r].name)
                    < DiscoveryPosition(Recommendations[s].name)

\* the route queries candidate k has issued so far
QueriesOf(k) ==
    CASE timingOf[k] = "waiting" -> 0
      [] timingOf[k] = "dropped1" -> 1
      [] timingOf[k] \in {"dropped2", "timed"} -> 2
      [] timingOf[k] = "started" ->
            CASE batch[k - i].at = "jitter" -> 0
              [] batch[k - i].at \in {"routeFromStart", "delay"} -> 1
              [] OTHER -> 2

RECURSIVE QueriesUpTo(_)
QueriesUpTo(k) == IF k = 0 THEN 0 ELSE QueriesOf(k) + QueriesUpTo(k - 1)

\* C20: a run issues at most one main-route query and, for each of its at
\* most MAX_CANDIDATES candidates, at most the start -> station query and
\* then the station -> end query, none of them again after a failure: at
\* most 1 + 2 x MAX_CANDIDATES route queries in all.
C20_RouteQueriesBounded ==
    /\ issued["mainRoute"] <= 1
    /\ Len(candidates) <= MAX_CANDIDATES
    /\ Len(timingOf) <= Len(candidates)
    /\ issued["candidateRoute"] = QueriesUpTo(Len(timingOf))
    /\ issued["mainRoute"] + issued["candidateRoute"] <= 1 + 2 * MAX_CANDIDATES

\* C20 witness: a pruned run ended with MAX_CANDIDATES candidates, each of
\* which issued both queries, one of them dropped at its second query.
C20_Witness ==
    /\ pc = "done" /\ Resolved
    /\ Len(discovered) > MAX_CANDIDATES
    /\ Len(candidates) = MAX_CANDIDATES
    /\ issued["mainRoute"] + issued["candidateRoute"] = 1 + 2 * MAX_CANDIDATES
    /\ \E k \in Candidates : timingOf[k] = "dropped2"

SettledMarks == {"timed", "dropped1", "dropped2"}

\* C21: a closure issues its station -> end query only after its start ->
\* station query was answered with a route and it then waited 300 ms; a
\* candidate whose first query failed is dropped with one query issued, it
\* never waits the 300 ms and never issues the second query.
C21_SecondQueryAfterFirst ==
    /\ \A j \in Closures :
          /\ batch[j].at = "delay" =>
                /\ batch[j].routeFromStart # NoRoute
                /\ batch[j].waited # QUERY_DELAY
          /\ (batch[j].at \in {"routeToEnd", "returned"}
                \/ timingOf[i + j] = "dropped2") =>
                /\ batch[j].routeFromStart # NoRoute
                /\ batch[j].waited = QUERY_DELAY
          /\ timingOf[i + j] = "dropped1" =>
                /\ batch[j].at = "null"
                /\ batch[j].routeFromStart = NoRoute
                /\ batch[j].routeToEnd = NoRoute
                /\ batch[j].waited # QUERY_DELAY
          /\ batch[j].routeToEnd # NoRoute => batch[j].routeFromStart # NoRoute
    /\ issued["candidateRoute"]
          = Cardinality({k \in Candidates : timingOf[k] = "dropped1"})
            + 2 * Cardinality({k \in Candidates :
                                  timingOf[k] \in {"timed", "dropped2"}})
            + Cardinality({j \in Closures :
                              /\ timingOf[i + j] = "started"
                              /\ batch[j].at \in {"routeFromStart", "delay"}})
            + 2 * Cardinality({j \in Closures :
                                  /\ timingOf[i + j] = "started"
                                  /\ batch[j].at = "routeToEnd"})

\* C21 witness: one closure of a batch has issued its second query, after the
\* 300 ms, while the other was dropped at its first query.
C21_Witness ==
    /\ pc = "timing" /\ Len(batch) = 2
    /\ \E j, k \in Closures :
          /\ batch[j].at = "routeToEnd" /\ batch[j].waited = QUERY_DELAY
          /\ timingOf[i + k] = "dropped1"
    /\ issued["candidateRoute"] = 3

\* C22, the states: a wait between batches is one of 800 ms, it is made only
\* when candidates are left after the batch, with the whole batch settled and
\* pushed and no later candidate started; while a batch runs no such wait is
\* in progress, and the run ends with the last batch, without a wait.
C22_WaitBetweenBatches ==
    /\ pending.kind = "delay" <=> pc = "batchDelay"
    /\ pc = "batchDelay" =>
          /\ pending = Delay(BATCH_DELAY)
          /\ batch = <<>>
          /\ i + batchSize < Len(candidates)
          /\ \A k \in Candidates :
                IF k <= i + batchSize THEN timingOf[k] \in SettledMarks
                ELSE timingOf[k] = "waiting"
    /\ pc = "timing" =>
          /\ i < Len(candidates)
          /\ \A k \in Candidates :
                /\ k <= i => timingOf[k] \in SettledMarks
                /\ k > i + batchSize => timingOf[k] = "waiting"
    /\ Resolved =>
          /\ i < Len(candidates) /\ Len(candidates) <= i + batchSize
          /\ \A k \in Candidates : timingOf[k] \in SettledMarks

\* C22, the steps: a batch after the first starts only at the end of a wait
\* of 800 ms, and the step that settles a batch goes to the wait when
\* candidates are left and to the end of the run when none is.
C22_WaitStep ==
    /\ i' # i =>
          /\ pc = "batchDelay" /\ pending = Delay(BATCH_DELAY)
          /\ pc' = "timing" /\ i' = i + batchSize
    /\ (pc = "timing" /\ pc' # "timing") =>
          IF i + batchSize < Len(candidates)
          THEN pc' = "batchDelay" /\ pending' = Delay(BATCH_DELAY)
          ELSE pc' = "done" /\ pending' = NoCall

\* C22: between two consecutive batches of calculateTravelTimes a wait of
\* 800 ms is made, after the earlier batch has settled and before the later
\* one starts, and no wait is made after the last batch, also when the
\* number of candidates is a multiple of the batch size.
C22_BatchDelay == []C22_WaitBetweenBatches /\ [][C22_WaitStep]_vars

\* C22 witness: a run of two batches has ended: it waited after the first
\* batch, in which a candidate was dropped, and not after the second.
C22_Witness ==
    /\ pc = "done" /\ Resolved
    /\ i = batchSize /\ Len(candidates) = batchSize + 1
    /\ \E k \in 1..batchSize : timingOf[k] \in {"dropped1", "dropped2"}

\* C23 (as claimed): the jitter a closure waited before its first query is at
\* least 100 ms and at most 200 ms.
C23_JitterRange ==
    \A j \in Closures :
        batch[j].at = "routeFromStart" =>
            (100 <= batch[j].waited /\ batch[j].waited <= 200)

\* the number 1 when the condition holds, else 0
Bit(condition) == IF condition THEN 1 ELSE 0

\* C24: the phases of a run follow one another: the geocoding of the end is
\* issued after that of the start resolved, the main route after both, the
\* searches around the midpoint, the start and the end one at a time after
\* the main route, the per-candidate queries after the three searches, and
\* the ranking after every candidate is settled; outside the timing phase
\* the run awaits one call and no closure exists.
C24_PhasesInSequence ==
    /\ pc = "geocodeStart" =>
          /\ startLocation = NoLocation /\ endLocation = NoLocation
          /\ issued["geocoder"] = 1 /\ issued["mainRoute"] = 0
    /\ pc = "geocodeEnd" =>
          /\ startLocation # NoLocation /\ endLocation = NoLocation
          /\ issued["geocoder"] = 2 /\ issued["mainRoute"] = 0
    /\ pc \in {"geocodeStart", "geocodeEnd"} =>
          pending.kind \in {"geocoder", "placeSearch"}
    /\ pc = "mainRoute" =>
          /\ startLocation # NoLocation /\ endLocation # NoLocation
          /\ mainRoute = NoRoute
          /\ pending.kind = "mainRoute"
          /\ issued["mainRoute"] = 1 /\ issued["nearby"] = 0
    /\ pc = "nearbyMid" =>
          /\ mainRoute # NoRoute
          /\ pending = NearbySearch(calculateMidpoint(startLocation,
                                                      endLocation),
                                    SEARCH_RADIUS)
          /\ issued["nearby"] = 1
    /\ pc = "nearbyStart" =>
          /\ pending = NearbySearch(startLocation, ENDPOINT_RADIUS)
          /\ issued["nearby"] = 2
    /\ pc = "nearbyEnd" =>
          /\ pending = NearbySearch(endLocation, ENDPOINT_RADIUS)
          /\ issued["nearby"] = 3
    /\ pc \notin {"timing", "batchDelay", "done"} =>
          /\ batch = <<>> /\ candidates = <<>>
          /\ issued["candidateRoute"] = 0
          /\ pending.kind \in CallKinds
    /\ pc \in {"timing", "batchDelay"} =>
          /\ issued["nearby"] = 3 /\ issued["mainRoute"] = 1
          /\ pending.kind \notin CallKinds
          /\ rankedStations = <<>> /\ outcome.status = "pending"
    /\ issued["candidateRoute"] > 0 => issued["nearby"] = 3
    /\ issued["nearby"] > 0 => (issued["mainRoute"] = 1 /\ mainRoute # NoRoute)
    /\ issued["mainRoute"] > 0 => issued["geocoder"] = 2
    /\ Resolved =>
          /\ pc = "done" /\ batch = <<>> /\ pending = NoCall
          /\ \A k \in Candidates : timingOf[k] \in SettledMarks
          /\ Len(timingOf) = Len(candidates)
          /\ rankedStations = rankStations(results)

\* C24 witness: a run of two batches resolved, both addresses having been
\* geocoded by the fallback.
C24_Witness ==
    /\ Resolved
    /\ startLocation.via = "placeSearch" /\ endLocation.via = "placeSearch"
    /\ i = batchSize
    /\ Len(Recommendations) > 0

\* C27: geocode calls PlaceSearch for an address only after the Geocoder
\* failed for it, and never again: a location of the Geocoder costs no
\* PlaceSearch, one PlaceSearch call stands for every location of
\* PlaceSearch, for the call in flight and for the failed geocoding; the
\* location returned is the one of the service that answered; geocode fails
\* only after both services failed for the address.
C27_GeocodeFallback ==
    /\ issued["geocoder"] = 1 + Bit(startLocation # NoLocation)
    /\ issued["placeSearch"]
          = Bit(startLocation.via = "placeSearch")
            + Bit(endLocation.via = "placeSearch")
            + Bit(pending.kind = "placeSearch")
            + Bit(RejectedWith(GeocodeError(StartAddress)))
            + Bit(RejectedWith(GeocodeError(EndAddress)))
    /\ startLocation # NoLocation =>
          /\ startLocation.via \in {"geocoder", "placeSearch"}
          /\ startLocation.lat = GeoLat(StartAddress, startLocation.via)
    /\ endLocation # NoLocation =>
          /\ endLocation.via \in {"geocoder", "placeSearch"}
          /\ endLocation.lat = GeoLat(EndAddress, endLocation.via)
    /\ RejectedWith(GeocodeError(StartAddress)) => startLocation = NoLocation
    /\ RejectedWith(GeocodeError(EndAddress)) =>
          (startLocation # NoLocation /\ endLocation = NoLocation)

\* C27 witness: the start was resolved by PlaceSearch after the Geocoder
\* failed, the end by the Geocoder alone.
C27_Witness ==
    /\ pc = "mainRoute"
    /\ startLocation.via = "placeSearch" /\ endLocation.via = "geocoder"
    /\ issued["geocoder"] = 2 /\ issued["placeSearch"] = 1

(***************************************************************************)
(* The page: SubwayFinderApp.handleSearch and what it calls.  A string is  *)
(* the sequence of its characters; of a history item the timestamp, which  *)
(* nothing reads, is left out; of a result card and of a marker only what  *)
(* tells two results apart is kept.  findMiddleStations is what it is to   *)
(* its caller: a promise that resolves with a result for the two addresses *)
(* or rejects with an error.                                               *)
(***************************************************************************)
runVars == <<pc, pending, startLocation, endLocation, mainRoute,
             candidateSet, startNearby, candidates, i, batch, results,
             outcome, issued, timingOf, found, balanceWeight, rankedStations,
             discovered, erred>>

\* what the two inputs of the form can hold
InputValues == {<<>>, <<" ">>, <<"A">>, <<" ", "A", " ">>, <<"B">>}

RECURSIVE TrimStart(_)
TrimStart(value) ==
    IF value # <<>> /\ Head(value) = " "
    THEN TrimStart(Tail(value))
    ELSE value

RECURSIVE TrimEnd(_)
TrimEnd(value) ==
    IF value # <<>> /\ value[Len(value)] = " "
    THEN TrimEnd(SubSeq(value, 1, Len(value) - 1))
    ELSE value

\* String.prototype.trim
Trim(value) == TrimEnd(TrimStart(value))

\* the messages of handleSearch
MissingInputMessage == "enter start and end"

SameInputMessage == "start and end must differ"

SearchFailedMessage == "search failed"

setLoading(dom, isLoading) == [dom EXCEPT !.searchBtnDisabled = isLoading]

\* the message is shown and a timer is set that hides it after 5 s
showError(dom, message) ==
    [dom EXCEPT !.errorText = message,
                !.errorShown = TRUE,
                !.hideTimers = @ + 1]

hideError(dom) == [dom EXCEPT !.errorShown = FALSE]

hideResults(dom) == [dom EXCEPT !.resultsShown = FALSE]

\* formatResultForDisplay(result, index), index counted from 0
formatResultForDisplay(station, index) ==
    [rank |-> index + 1, isBest |-> index = 0, stationName |-> station.name]

\* the cards displayResults builds for a result
ResultCards(result) ==
    [k \in 1..Len(result.recommendations) |->
        formatResultForDisplay(result.recommendations[k], k - 1)]

\* displayResults(result): the list is emptied and refilled, the section shown
displayResults(dom, result) ==
    [dom EXCEPT !.resultsList = ResultCards(result), !.resultsShown = TRUE]

\* the markers displaySearchResult adds for a result
ResultMarkers(result) ==
    <<[title |-> "start", address |-> result.startLocation.address],
      [title |-> "end", address |-> result.endLocation.address]>>
    \o [k \in 1..Len(result.recommendations) |->
          [title |-> "station",
           label |-> formatResultForDisplay(result.recommendations[k],
                                            k - 1).rank,
           stationName |-> result.recommendations[k].name]]

\* mapView.displaySearchResult(result): clearAll, then the markers of result
displaySearchResult(dom, result) ==
    [dom EXCEPT !.markers = ResultMarkers(result)]

HistoryItem(start, end) == [start |-> start, end |-> end]

\* mutant: an earlier entry with the same pair is not removed
saveToHistory_NoFilter(searchHistory, start, end) ==
    LET added == <<HistoryItem(start, end)>> \o searchHistory
    IN  IF Len(added) > MAX_HISTORY
        THEN SubSeq(added, 1, MAX_HISTORY)
        ELSE added

\* saveToHistory(start, end), up to the try block: this.searchHistory after
\* filter, unshift and slice
saveToHistory(searchHistory, start, end) ==
    LET kept == SelectSeq(searchHistory,
                          LAMBDA item :
                              ~(item.start = start /\ item.end = end))
        added == <<HistoryItem(start, end)>> \o kept
    IN  IF Len(added) > MAX_HISTORY
        THEN SubSeq(added, 1, MAX_HISTORY)
        ELSE added

\* the try block of saveToHistory: setItem and updateHistoryDisplay, or
\* setItem throws and the catch block only logs
Persist(searchHistory, setItemThrows) ==
    [item |-> IF setItemThrows THEN storage ELSE searchHistory,
     dom |-> IF setItemThrows
             THEN page
             ELSE updateHistoryDisplay(page, searchHistory)]

\* the recommendation lists a result can carry
RecommendationLists == {<<[name |-> 1]>>, <<[name |-> 2], [name |-> 1]>>}

\* the objects findMiddleStations can resolve with for a search
SearchResults(search) ==
    {[isNull |-> FALSE,
      startLocation |-> [address |-> search.start],
      endLocation |-> [address |-> search.end],
      recommendations |-> recommendations,
      totalCandidates |-> Len(recommendations)] :
        recommendations \in RecommendationLists}

\* the messages of the errors findMiddleStations can reject with
ErrorMessages == {"", "no route"}

\* the sequence without its k-th element
Without(sequence, k) ==
    SubSeq(sequence, 1, k - 1) \o SubSeq(sequence, k + 1, Len(sequence))

\* handleSearch up to its await, or to its return on an invalid input
HandleSearch ==
    /\ \E startValue \in InputValues, endValue \in InputValues :
          LET startAddress == Trim(startValue)
              endAddress == Trim(endValue)
          IN  IF startAddress = <<>> \/ endAddress = <<>>
              THEN /\ page.hideTimers < MaxTimers
                   /\ page' = showError(page, MissingInputMessage)
                   /\ UNCHANGED <<searches, lastCall>>
              ELSE IF startAddress = endAddress
              THEN /\ page.hideTimers < MaxTimers
                   /\ page' = showError(page, SameInputMessage)
                   /\ UNCHANGED <<searches, lastCall>>
              ELSE /\ Len(searches) < MaxSearches
                   /\ page' = hideResults(hideError(setLoading(page, TRUE)))
                   /\ searches' =
                        Append(searches, HistoryItem(startAddress, endAddress))
                   /\ lastCall' = [op |-> "handleSearch",
                                   start |-> startAddress,
                                   end |-> endAddress,
                                   status |-> "awaiting",
                                   result |-> NoResult]
    /\ UNCHANGED <<app, storage, runVars, expired, parked, acVars>>

\* history: search k settled; it is the latest call if it is the last of
\* the searches and the latest call is still awaited
Settling(k, status, result) ==
    IF k = Len(searches) /\ lastCall.status = "awaiting"
    THEN [lastCall EXCEPT !.status = status, !.result = result]
    ELSE lastCall

\* findMiddleStations of search k resolved: the rest of the try block and
\* the finally block of its handleSearch
FinderResolves(k) ==
    /\ k \in 1..Len(searches)
    /\ \E result \in SearchResults(searches[k]), setItemThrows \in BOOLEAN :
          LET searchHistory == saveToHistory(app.searchHistory,
                                             searches[k].start,
                                             searches[k].end)
              saved == Persist(searchHistory, setItemThrows)
          IN  /\ app' = [currentResult |-> result,
                         searchHistory |-> searchHistory]
              /\ storage' = saved.item
              /\ page' = setLoading(
                            displaySearchResult(
                                displayResults(saved.dom, result), result),
                            FALSE)
              /\ lastCall' = Settling(k, "resolved", result)
    /\ searches' = Without(searches, k)
    /\ UNCHANGED <<runVars, expired, parked, acVars>>

\* mutant: the rejection leaves the page loading (no finally block)
FinderRejects_StaysLoading(k) ==
    /\ k \in 1..Len(searches)
    /\ page.hideTimers < MaxTimers
    /\ \E message \in ErrorMessages :
          page' = showError(page, IF message = ""
                                  THEN SearchFailedMessage
                                  ELSE message)
    /\ lastCall' = Settling(k, "rejected", NoResult)
    /\ searches' = Without(searches, k)
    /\ UNCHANGED <<app, storage, runVars, expired, parked, acVars>>

\* findMiddleStations of search k rejected: the catch block and the finally
\* block of its handleSearch
FinderRejects(k) ==
    /\ k \in 1..Len(searches)
    /\ page.hideTimers < MaxTimers
    /\ \E message \in ErrorMessages :
          page' = setLoading(
                      showError(page, IF message = ""
                                      THEN SearchFailedMessage
                                      ELSE message),
                      FALSE)
    /\ lastCall' = Settling(k, "rejected", NoResult)
    /\ searches' = Without(searches, k)
    /\ UNCHANGED <<app, storage, runVars, expired, parked, acVars>>

\* a timer of showError fires: hideError
ErrorTimerFires ==
    /\ page.hideTimers > 0
    /\ page' = [hideError(page) EXCEPT !.hideTimers = @ - 1]
    /\ UNCHANGED <<app, storage, searches, lastCall, runVars, expired, parked, acVars>>

NextApp ==
    \/ HandleSearch
    \/ \E k \in 1..MaxSearches : FinderResolves(k)
    \/ \E k \in 1..MaxSearches : FinderRejects(k)
    \/ ErrorTimerFires

SpecApp == Init /\ [][NextApp]_vars

(***************************************************************************)
(* The search history on its own: saveToHistory called with any pairs, and *)
(* the page loaded again with what localStorage holds.                     *)
(***************************************************************************)
\* the strings saveToHistory is called with
HistoryInputs == {<<"A">>, <<"B">>}

SaveToHistoryCall ==
    /\ \E start \in HistoryInputs, end \in HistoryInputs,
          setItemThrows \in BOOLEAN :
          LET searchHistory == saveToHistory(app.searchHistory, start, end)
              saved == Persist(searchHistory, setItemThrows)
          IN  /\ app' = [app EXCEPT !.searchHistory = searchHistory]
              /\ storage' = saved.item
              /\ page' = saved.dom
              /\ lastCall' = [op |-> "saveToHistory",
                              start |-> start,
                              end |-> end,
                              before |-> app.searchHistory]
    /\ UNCHANGED <<searches, runVars, expired, parked, acVars>>

\* the page is loaded again: new SubwayFinderApp() and init()
Reload ==
    /\ app' = [currentResult |-> NoResult,
               searchHistory |-> loadSearchHistory(storage)]
    /\ page' = IF storage # NoItem
               THEN updateHistoryDisplay(BlankPage, loadSearchHistory(storage))
               ELSE BlankPage
    /\ lastCall' = NoOperation
    /\ UNCHANGED <<storage, searches, runVars, expired, parked, acVars>>

NextHistory == SaveToHistoryCall \/ Reload

SpecHistory == Init /\ [][NextHistory]_vars

(***************************************************************************)
(* Properties of the page.                                                 *)
(***************************************************************************)
\* C25: once no search is in flight and the search that was started last
\* has resolved, currentResult, the result list and the markers are those
\* of that search, whatever the order in which the searches completed
C25_LatestSearchWins ==
    (/\ lastCall.op = "handleSearch"
     /\ lastCall.status = "resolved"
     /\ searches = <<>>) =>
        /\ app.currentResult = lastCall.result
        /\ page.resultsList = ResultCards(lastCall.result)
        /\ page.markers = ResultMarkers(lastCall.result)

\* C28: the history never holds more than MAX_HISTORY entries nor two
\* entries with the same (start, end); after a call of saveToHistory its
\* first entry is the pair of that call, and the entries behind it are the
\* earlier ones without that pair, in their order
C28_HistoryBounded ==
    LET history == app.searchHistory
    IN  /\ Len(history) <= MAX_HISTORY
        /\ \A a, b \in 1..Len(history) :
              (/\ history[a].start = history[b].start
               /\ history[a].end = history[b].end) => a = b
        /\ lastCall.op = "saveToHistory" =>
              /\ Len(history) >= 1
              /\ history[1].start = lastCall.start
              /\ history[1].end = lastCall.end
              /\ \A a, b \in 2..Len(history) :
                    a < b =>
                      \E c, d \in 1..Len(lastCall.before) :
                          /\ c < d
                          /\ lastCall.before[c] = history[a]
                          /\ lastCall.before[d] = history[b]

\* a full history whose last entry is saved again and moves to the front
C28_Witness ==
    /\ lastCall.op = "saveToHistory"
    /\ Len(lastCall.before) = MAX_HISTORY
    /\ lastCall.before[MAX_HISTORY].start = lastCall.start
    /\ lastCall.before[MAX_HISTORY].end = lastCall.end
    /\ Len(app.searchHistory) = MAX_HISTORY
    /\ app.searchHistory[1] = lastCall.before[MAX_HISTORY]

(***************************************************************************)
(* Late answers.  The timer of geocodeWithGeocoder, geocodeWithPlaceSearch *)
(* and getTransitRoute rejects the promise of the call but cannot recall   *)
(* the request: the backend may still answer, and the callback then runs   *)
(* clearTimeout on the fired timer and resolve or reject on the settled    *)
(* promise.  The specifications below keep the calls a timer rejected.     *)
(***************************************************************************)
\* the backend answers a call whose timer has fired: clearTimeout(timer),
\* then resolve or reject by the status of the answer
LateCallback ==
    /\ \E call \in expired, status \in {"complete", "error"} :
          /\ ~call.answered
          /\ expired' =
                (expired \ {call})
                \cup {[call EXCEPT
                         !.promise = Settle(@, IF status = "complete"
                                               THEN "fulfilled"
                                               ELSE "rejected"),
                         !.answered = TRUE]}
    /\ UNCHANGED <<runVars, parked, appVars, erred>>

(***************************************************************************)
(* The calls of steps 1 and 2 (two geocodes, the main route) with their    *)
(* late answers; the run is followed up to the answer of the main route.   *)
(***************************************************************************)
NextCalls ==
    \/ GeocoderComplete
    \/ GeocoderError
    \/ GeocoderTimeout(TRUE)
    \/ PlaceSearchComplete
    \/ PlaceSearchError
    \/ PlaceSearchTimeout(TRUE)
    \/ MainRouteComplete
    \/ MainRouteFailed
    \/ MainRouteTimeout(TRUE)
    \/ LateCallback

SpecCalls == Init /\ [][NextCalls]_vars

(***************************************************************************)
(* calculateTravelTimes on its own, on any list of up to MAX_CANDIDATES    *)
(* candidates, with the late answers of its route queries.                 *)
(***************************************************************************)
\* the candidate lists: the first stations the nearby search reports
TimesCandidates ==
    {[k \in 1..n |-> Spread(PoiStation(k, [lat |-> 3]), "source", "nearby")] :
        n \in 1..MAX_CANDIDATES}

\* the locals of findMiddleStations, and of the calculateTravelTimes it
\* awaits, at the call calculateTravelTimes(candidates, startLocation,
\* endLocation), with the history of the run so far: the addresses were
\* geocoded by the service via, the first batch has been mapped
TimesEntry(cands, via) ==
    [pc |-> "timing",
     pending |-> NoCall,
     startLocation |-> [lat |-> GeoLat(StartAddress, via), via |-> via],
     endLocation |-> [lat |-> GeoLat(EndAddress, via), via |-> via],
     mainRoute |-> RouteData(4, <<>>),
     candidateSet |-> <<>>,
     startNearby |-> <<>>,
     candidates |-> cands,
     i |-> 0,
     batch |-> NewBatch(cands, 0),
     results |-> <<>>,
     outcome |-> [status |-> "pending"],
     issued |-> [k \in CallKinds |->
                    CASE k = "geocoder" -> 2
                      [] k = "placeSearch" ->
                            IF via = "placeSearch" THEN 2 ELSE 0
                      [] k = "mainRoute" -> 1
                      [] k = "nearby" -> 3
                      [] k = "candidateRoute" -> 0],
     timingOf |-> MarkStarted([k \in 1..Len(cands) |-> "waiting"], 0),
     found |-> NothingFound,
     rankedStations |-> <<>>,
     discovered |-> [k \in 1..Len(cands) |-> cands[k].name]]

\* the run executing has the locals run
Executing(run) ==
    /\ pc = run.pc
    /\ pending = run.pending
    /\ startLocation = run.startLocation
    /\ endLocation = run.endLocation
    /\ mainRoute = run.mainRoute
    /\ candidateSet = run.candidateSet
    /\ startNearby = run.startNearby
    /\ candidates = run.candidates
    /\ i = run.i
    /\ batch = run.batch
    /\ results = run.results
    /\ outcome = run.outcome
    /\ issued = run.issued
    /\ timingOf = run.timingOf
    /\ found = run.found
    /\ rankedStations = run.rankedStations
    /\ discovered = run.discovered

InitTimes ==
    /\ \E cands \in TimesCandidates : Executing(TimesEntry(cands, "geocoder"))
    /\ balanceWeight = BALANCE_WEIGHT_TENTHS
    /\ expired = {}
    /\ parked = NoRun
    /\ erred = {}
    /\ AppLoaded

NextTimes ==
    \/ \E j \in Closures : JitterDone(j)
    \/ \E j \in Closures : RouteFromStartComplete(j)
    \/ \E j \in Closures : RouteFromStartError(j)
    \/ \E j \in Closures : RouteFromStartTimeout(j, TRUE)
    \/ \E j \in Closures : DelayDone(j)
    \/ \E j \in Closures : RouteToEndComplete(j)
    \/ \E j \in Closures : RouteToEndError(j)
    \/ \E j \in Closures : RouteToEndTimeout(j, TRUE)
    \/ BatchSettled
    \/ BatchDelayDone
    \/ LateCallback

SpecTimes == InitTimes /\ [][NextTimes]_vars

(***************************************************************************)
(* Properties of the calls and their late answers.                         *)
(***************************************************************************)
\* the route queries of calculateTravelTimes the backend has not answered:
\* those awaited, and those a timer rejected that are still unanswered
Unanswered ==
    Cardinality({j \in Closures :
                    batch[j].at \in {"routeFromStart", "routeToEnd"}})
    + Cardinality({call \in expired :
                    call.kind = "candidateRoute" /\ ~call.answered})

\* C29: at every moment of calculateTravelTimes at most batchSize (2) of its
\* route queries are unanswered by the backend, the queries a timer has
\* rejected included
C29_UnansweredBounded == Unanswered <= batchSize

\* what a call rejected by its timer means for the run, whatever the
\* backend answers later
FailedFor(call) ==
    CASE call.kind = "geocoder" /\ call.leg = 1 ->
            startLocation.via # "geocoder"
      [] call.kind = "geocoder" /\ call.leg = 2 ->
            endLocation.via # "geocoder"
      [] call.kind = "placeSearch" /\ call.leg = 1 ->
            startLocation = NoLocation
            /\ RejectedWith(GeocodeError(StartAddress))
      [] call.kind = "placeSearch" /\ call.leg = 2 ->
            endLocation = NoLocation
            /\ RejectedWith(GeocodeError(EndAddress))
      [] call.kind = "mainRoute" ->
            mainRoute = NoRoute /\ RejectedWith(MainRouteError)

C30_Settled ==
    /\ \A call \in expired : call.promise = "rejected" /\ FailedFor(call)
    /\ \A call, other \in expired :
          (/\ call.kind = other.kind
           /\ call.who = other.who
           /\ call.leg = other.leg) => call = other
    /\ pending.timer => pending.kind \in {"geocoder", "placeSearch",
                                          "mainRoute"}

C30_NoSecondSettle ==
    /\ startLocation # NoLocation => startLocation' = startLocation
    /\ endLocation # NoLocation => endLocation' = endLocation
    /\ mainRoute # NoRoute => mainRoute' = mainRoute /\ outcome' = outcome
    /\ outcome.status # "pending" => outcome' = outcome

\* C30: a geocode or route call settles once.  A call its timer rejected
\* stays rejected and the run stays failed for it, whatever the backend
\* answers later; a call its callback settled has no timer left, and what
\* it settled (the location, the route, the outcome of the run) is never
\* changed afterwards
C30_SettlesOnce == []C30_Settled /\ [][C30_NoSecondSettle]_vars

\* the Geocoder answered the start address after its timer had fired, and
\* the run went on with the location of the fallback
C30_Witness ==
    /\ \E call \in expired :
          /\ call.kind = "geocoder" /\ call.leg = 1
          /\ call.answered
    /\ startLocation.via = "placeSearch"
    /\ pc = "nearbyMid"

(***************************************************************************)
(* Two runs on one StationFinder.  findMiddleStations keeps everything it  *)
(* works on in local constants (and so do extractCandidateStations and     *)
(* calculateTravelTimes); the object itself holds api and balanceWeight,   *)
(* which no run writes.  Of the two runs one is executing, in the          *)
(* variables of the run, and the other is suspended at an await with its   *)
(* locals parked; the event loop resumes either.  Both runs are followed   *)
(* from their call of calculateTravelTimes.                                *)
(***************************************************************************)
\* the locals of the run executing, with its history
RunLocals ==
    [pc |-> pc,
     pending |-> pending,
     startLocation |-> startLocation,
     endLocation |-> endLocation,
     mainRoute |-> mainRoute,
     candidateSet |-> candidateSet,
     startNearby |-> startNearby,
     candidates |-> candidates,
     i |-> i,
     batch |-> batch,
     results |-> results,
     outcome |-> outcome,
     issued |-> issued,
     timingOf |-> timingOf,
     found |-> found,
     rankedStations |-> rankedStations,
     discovered |-> discovered]

\* mutant: results is kept on the StationFinder, one array for both runs
Resumed_SharedResults == [parked EXCEPT !.results = results]

\* what the suspended run finds when it resumes: its own locals
Resumed == parked

\* the event loop runs a continuation of the other run
SwitchRun ==
    /\ parked # NoRun
    /\ parked' = RunLocals
    /\ pc' = Resumed.pc
    /\ pending' = Resumed.pending
    /\ startLocation' = Resumed.startLocation
    /\ endLocation' = Resumed.endLocation
    /\ mainRoute' = Resumed.mainRoute
    /\ candidateSet' = Resumed.candidateSet
    /\ startNearby' = Resumed.startNearby
    /\ candidates' = Resumed.candidates
    /\ i' = Resumed.i
    /\ batch' = Resumed.batch
    /\ results' = Resumed.results
    /\ outcome' = Resumed.outcome
    /\ issued' = Resumed.issued
    /\ timingOf' = Resumed.timingOf
    /\ found' = Resumed.found
    /\ rankedStations' = Resumed.rankedStations
    /\ discovered' = Resumed.discovered
    /\ UNCHANGED <<balanceWeight, expired, appVars, erred>>

\* the candidates of the first run: as many as calculateTravelTimes can get
FirstCandidates ==
    [k \in 1..MAX_CANDIDATES |->
        Spread(PoiStation(k, [lat |-> 3]), "source", "nearby")]

\* the candidates of the second run: other stations, one shared with the
\* first run, from other locations of the same two addresses
SecondCandidates ==
    <<Spread(PoiStation(4, [lat |-> 3]), "source", "nearby"),
      Spread(PoiStation(2, [lat |-> 3]), "source", "nearby")>>

InitTwo ==
    /\ Executing(TimesEntry(FirstCandidates, "geocoder"))
    /\ parked = TimesEntry(SecondCandidates, "placeSearch")
    /\ erred = {}
    /\ balanceWeight = BALANCE_WEIGHT_TENTHS
    /\ expired = {}
    /\ AppLoaded

NextTwo ==
    \/ \E j \in Closures : JitterDone(j)
    \/ \E j \in Closures : RouteFromStartComplete(j)
    \/ \E j \in Closures : RouteFromStartError(j)
    \/ \E j \in Closures : RouteFromStartTimeout(j, FALSE)
    \/ \E j \in Closures : DelayDone(j)
    \/ \E j \in Closures : RouteToEndComplete(j)
    \/ \E j \in Closures : RouteToEndError(j)
    \/ \E j \in Closures : RouteToEndTimeout(j, FALSE)
    \/ BatchSettled
    \/ BatchDelayDone
    \/ SwitchRun

SpecTwo == InitTwo /\ [][NextTwo]_vars

(***************************************************************************)
(* Properties of two interleaved runs.                                     *)
(***************************************************************************)
\* the candidates of a run whose batch has been pushed to its results
PushedOf(run) ==
    {k \in 1..Len(run.candidates) :
        k <= run.i + (IF run.batch = <<>> THEN batchSize ELSE 0)}

\* the object the closure of a candidate returns when both its queries are
\* answered
TimedAlone(station) ==
    TimedStation([station |-> station,
                  routeFromStart |->
                      RouteData(RawTimeFromStart(station.name), <<>>),
                  routeToEnd |->
                      RouteData(RawTimeToEnd(station.name), <<>>)])

\* what a run on its own has in results: its own candidates whose two
\* queries were answered, in the order of its candidates, each with its
\* own two durations
RECURSIVE ResultsAlone(_, _)
ResultsAlone(run, k) ==
    IF k = 0 THEN <<>>
    ELSE ResultsAlone(run, k - 1)
         \o (IF k \in PushedOf(run) /\ run.timingOf[k] = "timed"
             THEN <<TimedAlone(run.candidates[k])>>
             ELSE <<>>)

Unaffected(run) ==
    /\ run.results = ResultsAlone(run, Len(run.candidates))
    /\ \A j \in 1..Len(run.batch) :
          run.batch[j].station = run.candidates[run.i + j]
    /\ run.outcome.status # "rejected"
    /\ run.outcome.status = "resolved" =>
          /\ run.pc = "done"
          /\ run.outcome.value.recommendations =
                Slice(rankStations(run.results), MAX_RESULTS)
          /\ run.outcome.value.totalCandidates = Len(run.candidates)
          /\ run.outcome.value.startLocation.lat = run.startLocation.lat
          /\ run.outcome.value.endLocation.lat = run.endLocation.lat

\* C26: of two interleaved runs of findMiddleStations on one StationFinder
\* each has, at every moment, the results it has when it runs alone: its
\* own candidates that were timed, with their own durations, and at its end
\* the ranking of those, its own candidate count and its own locations
C26_RunsIndependent == Unaffected(RunLocals) /\ Unaffected(parked)

\* both runs are in the middle of calculateTravelTimes, each with a route
\* query in flight, and the first has results of an earlier batch
C26_Witness ==
    /\ pc = "timing" /\ parked.pc = "timing"
    /\ \E j \in Closures : batch[j].at = "routeToEnd"
    /\ \E j \in 1..Len(parked.batch) : parked.batch[j].at = "routeToEnd"
    /\ results # <<>> /\ parked.issued["candidateRoute"] = 2 * batchSize

(***************************************************************************)
(* Properties of the extraction and of the returned object.                *)
(***************************************************************************)
\* C31: a nearby search that ended with an error status counts as an empty
\* answer.  The run stays pending while the searches go on; once the three
\* searches are answered, every name the route or another search gave is in
\* the merged set, the candidates are MAX_CANDIDATES of them or all of them,
\* and the run is rejected only when nothing at all was discovered
C31_ErrorLikeEmpty ==
    /\ \A phase \in erred : found[phase] = <<>>
    /\ (erred # {} /\ ~Extracted) => outcome.status = "pending"
    /\ (erred # {} /\ Extracted) =>
          /\ Range(discovered) = Discovered
          /\ Discovered # {} =>
                /\ outcome.status = "pending"
                /\ pc = "timing"
                /\ Len(candidates) = Min2(MAX_CANDIDATES, Len(discovered))
                /\ Range(NamesOf(candidates)) \subseteq Discovered
                /\ Len(discovered) <= MAX_CANDIDATES =>
                      NamesOf(candidates) = discovered
          /\ Discovered = {} => RejectedWith(NoCandidatesError)

\* the search around the midpoint ended with an error, the route and the
\* search around the start gave stations, and these are the candidates
C31_Witness ==
    /\ "nearbyMid" \in erred
    /\ Extracted
    /\ mainRoute.allSubwayStations # <<>>
    /\ found.nearbyStart # <<>>
    /\ \E k \in 1..Len(candidates) :
          candidates[k].name \in Range(found.nearbyStart)
    /\ \E k \in 1..Len(candidates) :
          candidates[k].name \in Range(mainRoute.allSubwayStations)

\* the names of a list without the later occurrences of a name
RECURSIVE FirstOccurrences(_)
FirstOccurrences(names) ==
    IF names = <<>> THEN <<>>
    ELSE LET front == FirstOccurrences(SubSeq(names, 1, Len(names) - 1))
             last == names[Len(names)]
         IN  IF last \in Range(front) THEN front ELSE Append(front, last)

\* the names in the order of their discovery: those of the route, then the
\* new ones of the search around the midpoint, the start and the end
DiscoveryOrder ==
    FirstOccurrences(mainRoute.allSubwayStations \o found.nearbyMid
                     \o found.nearbyStart \o found.nearbyEnd)

\* C32: when the strategies discovered at most MAX_CANDIDATES names,
\* extractCandidateStations returns one candidate for each, in the order of
\* discovery, each the entry of its first discovery with no distanceToMid
C32_SmallSetUnchanged ==
    (/\ Extracted
     /\ Cardinality(Discovered) <= MAX_CANDIDATES
     /\ Discovered # {}) =>
        /\ pc = "timing"
        /\ NamesOf(candidates) = DiscoveryOrder
        /\ \A k \in 1..Len(candidates) :
              /\ "distanceToMid" \notin DOMAIN candidates[k]
              /\ candidates[k] = FirstEntry(candidates[k].name)

\* exactly MAX_CANDIDATES names were discovered, by the route and by the
\* searches, and a candidate farther from the midpoint stands before a
\* nearer one
C32_Witness ==
    /\ Extracted /\ pc = "timing"
    /\ Cardinality(Discovered) = MAX_CANDIDATES
    /\ mainRoute.allSubwayStations # <<>>
    /\ \E a, b \in 1..Len(candidates) :
          /\ a < b
          /\ HasLat(candidates[a]) /\ HasLat(candidates[b])
          /\ calculateDistance(candidates[a],
                               calculateMidpoint(startLocation, endLocation))
             > calculateDistance(candidates[b],
                                 calculateMidpoint(startLocation, endLocation))

\* C33: in the object findMiddleStations resolves with, totalCandidates is
\* the number of candidates extractCandidateStations returned, between 1
\* and MAX_CANDIDATES; there are at most min(MAX_RESULTS, totalCandidates)
\* recommendations, each of them one of the candidates, and no two with the
\* same name
C33_ResultShape ==
    Resolved =>
        /\ outcome.value.totalCandidates = Len(candidates)
        /\ 1 <= outcome.value.totalCandidates
        /\ outcome.value.totalCandidates <= MAX_CANDIDATES
        /\ Len(Recommendations)
              <= Min2(MAX_RESULTS, outcome.value.totalCandidates)
        /\ \A r \in 1..Len(Recommendations) :
              \E k \in 1..Len(candidates) :
                  \A f \in DOMAIN candidates[k] :
                      /\ f \in DOMAIN Recommendations[r]
                      /\ Recommendations[r][f] = candidates[k][f]
        /\ NoDuplicateNames(Recommendations)

\* MAX_CANDIDATES candidates were all timed, and MAX_RESULTS of them are
\* recommended
C33_Witness ==
    /\ Resolved
    /\ outcome.value.totalCandidates = MAX_CANDIDATES
    /\ Cardinality(TimedCandidates) = MAX_CANDIDATES
    /\ Len(Recommendations) = MAX_RESULTS

(***************************************************************************)
(* Properties of handleSearch.                                             *)
(***************************************************************************)
\* every search that got to findMiddleStations has two trimmed, non-empty
\* and different addresses
C34_ValidSearches ==
    \A k \in 1..Len(searches) :
        /\ searches[k].start # <<>> /\ searches[k].end # <<>>
        /\ Trim(searches[k].start) = searches[k].start
        /\ Trim(searches[k].end) = searches[k].end
        /\ searches[k].start # searches[k].end

\* a step that starts a search sets the loading state; a step in which a
\* search settles clears it; when the search settled with an error shown,
\* the history, the saved history and currentResult are what they were
C34_SearchStep ==
    /\ Len(searches') > Len(searches) => page'.searchBtnDisabled
    /\ Len(searches') < Len(searches) => ~page'.searchBtnDisabled
    /\ (/\ Len(searches') < Len(searches)
        /\ page'.hideTimers > page.hideTimers) =>
          /\ app' = app
          /\ storage' = storage
          /\ page'.historyList = page.historyList
    /\ (/\ Len(searches') = Len(searches)
        /\ page'.hideTimers > page.hideTimers) =>
          /\ page'.searchBtnDisabled = page.searchBtnDisabled
          /\ app' = app

\* C34: handleSearch calls findMiddleStations only with two addresses that
\* are non-empty after trimming and differ, and sets the loading state when
\* it does; whenever findMiddleStations settles the loading state is
\* cleared; when it rejected no history entry is saved and currentResult
\* is unchanged
C34_SearchLifecycle == []C34_ValidSearches /\ [][C34_SearchStep]_vars

\* the latest search was rejected after an earlier one had resolved: the
\* page is not loading, the error is shown, and the result and the history
\* are those of the earlier search
C34_Witness ==
    /\ lastCall.op = "handleSearch" /\ lastCall.status = "rejected"
    /\ searches = <<>>
    /\ ~page.searchBtnDisabled /\ page.errorShown
    /\ app.currentResult # NoResult
    /\ app.currentResult.startLocation.address # lastCall.start
    /\ Len(app.searchHistory) = 1
    /\ app.searchHistory[1].start # lastCall.start

(***************************************************************************)
(* The autocomplete of one input: handleAutoCompleteInput and its debounce *)
(* timer, the answer of gaodeAPI.getSuggestions, the keys and the mouse.   *)
(* getSuggestions is not part of the sources: a call of it is a request    *)
(* that is answered, at any later time, with a list of suggestions or with *)
(* an error. The dropdown starts closed. Of the events of the input, the   *)
(* focus, the blur and the clicks are left out.                            *)
(***************************************************************************)
\* everything of the page and of the runs but the autocomplete
searchVars == <<app, page, storage, searches, lastCall, runVars, expired,
                parked>>

\* the lists getSuggestions can answer with: the n-th suggestion is named
\* by n letters
SuggestionLists ==
    {[n \in 1..len |-> [j \in 1..n |-> "A"]] : len \in 0..MaxSuggestions}

\* the keys handleAutoCompleteKeyboard has a case for
Keys == {"ArrowDown", "ArrowUp", "Enter", "Escape"}

showLoading(c) ==
    [c EXCEPT !.loadingEl = "block", !.listEl = "none", !.emptyEl = "none",
              !.dropdown = "block"]

showEmpty(c) ==
    [c EXCEPT !.loadingEl = "none", !.listEl = "none", !.emptyEl = "block",
              !.dropdown = "block"]

hideDropdown(c) ==
    [c EXCEPT !.dropdown = "none", !.currentIndex = 0 - 1]

\* the list element is rebuilt, one item per suggestion, none of them
\* active, and shown
renderSuggestions(c, suggestions) ==
    [c EXCEPT !.items = Len(suggestions), !.active = 0 - 1,
              !.loadingEl = "none", !.emptyEl = "none", !.listEl = "block",
              !.dropdown = "block"]

selectSuggestion(c, suggestion) ==
    [hideDropdown([c EXCEPT !.input = suggestion])
        EXCEPT !.selectedLocation = suggestion]

\* the index is stored as it comes; the item of that index, if there is
\* one, is the only active one
setActiveItem(c, index) ==
    [c EXCEPT !.currentIndex = index,
              !.active = IF index \in 0..(c.items - 1) THEN index
                                                       ELSE 0 - 1]

\* an input event with this value in the input
HandleAutoCompleteInput(value) ==
    /\ typing.count < MaxInputs
    /\ LET cleared == IF controller.debounceTimer # NoTimer
                      THEN {t \in timers : t.id # controller.debounceTimer}
                      ELSE timers
           reset == [controller EXCEPT !.input = value,
                                       !.currentIndex = 0 - 1]
           keyword == Trim(value)
           id == typing.count + 1
       IN  /\ IF keyword = <<>>
              THEN /\ controller' = hideDropdown(reset)
                   /\ timers' = cleared
              ELSE /\ controller' = [showLoading(reset)
                                        EXCEPT !.debounceTimer = id]
                   /\ timers' = cleared \cup
                                    {[id |-> id, keyword |-> keyword]}
           /\ typing' = [typing EXCEPT !.count = id, !.keyword = keyword]
    /\ UNCHANGED <<requests, searchVars>>

\* the 300 ms of timer t have passed: its callback calls getSuggestions
DebounceFires(t) ==
    /\ t \in timers
    /\ timers' = timers \ {t}
    /\ requests' = requests \cup {t}
    /\ UNCHANGED <<controller, typing, searchVars>>

\* getSuggestions of request r resolved with these suggestions
SuggestionsArrive(r, suggestions) ==
    /\ r \in requests
    /\ requests' = requests \ {r}
    /\ LET stored == [controller EXCEPT !.suggestions = suggestions]
       IN  controller' = IF Len(suggestions) > 0
                         THEN renderSuggestions(stored, suggestions)
                         ELSE showEmpty(stored)
    /\ typing' = [typing EXCEPT !.answered = r.keyword]
    /\ UNCHANGED <<timers, searchVars>>

\* getSuggestions of request r rejected: the catch block
SuggestionsFail(r) ==
    /\ r \in requests
    /\ requests' = requests \ {r}
    /\ controller' = hideDropdown(controller)
    /\ UNCHANGED <<timers, typing, searchVars>>

\* a keydown event of the input while the dropdown is open
HandleAutoCompleteKeyboard(key) ==
    /\ controller.dropdown # "none"
    /\ LET length == Len(controller.suggestions)
           currentIndex == controller.currentIndex
       IN  controller' =
             CASE key = "ArrowDown" ->
                    setActiveItem(controller,
                                  Min2(currentIndex + 1, length - 1))
               [] key = "ArrowUp" ->
                    setActiveItem(controller, Max2(currentIndex - 1, 0))
               [] key = "Enter" ->
                    IF currentIndex >= 0 /\ currentIndex < length
                    THEN selectSuggestion(controller,
                             controller.suggestions[currentIndex + 1])
                    ELSE controller
               [] key = "Escape" -> hideDropdown(controller)
    /\ UNCHANGED <<timers, requests, typing, searchVars>>

\* the mouse enters the item of this index of the list that is shown
MouseEnter(index) ==
    /\ controller.dropdown = "block" /\ controller.listEl = "block"
    /\ index \in 0..(controller.items - 1)
    /\ controller' = setActiveItem(controller, index)
    /\ UNCHANGED <<timers, requests, typing, searchVars>>

NextTips ==
    \/ \E value \in InputValues : HandleAutoCompleteInput(value)
    \/ \E t \in timers : DebounceFires(t)
    \/ \E r \in requests, suggestions \in SuggestionLists :
          SuggestionsArrive(r, suggestions)
    \/ \E r \in requests : SuggestionsFail(r)
    \/ \E key \in Keys : HandleAutoCompleteKeyboard(key)
    \/ \E index \in 0..(MaxSuggestions - 1) : MouseEnter(index)

SpecTips == Init /\ [][NextTips]_vars

(***************************************************************************)
(* Properties of the autocomplete.                                         *)
(***************************************************************************)
OneDebounceTimer == Cardinality(timers) <= 1

\* the list that is shown was fetched for the keyword of the latest input
\* event, and nothing is shown once the input was cleared
ShownForLatestKeyword ==
    /\ (controller.dropdown = "block" /\ controller.listEl = "block") =>
          typing.answered = typing.keyword
    /\ (typing.count > 0 /\ typing.keyword = <<>>) =>
          controller.dropdown = "none"

\* an answer that changes the stored list or opens the dropdown is the
\* answer for the keyword of the latest input event
StaleAnswerIgnored ==
    \A r \in requests \ requests' :
        (\/ controller'.suggestions # controller.suggestions
         \/ controller'.dropdown = "block" /\ controller.dropdown = "none")
            => r.keyword = typing.keyword

\* C35: at most one debounce timer of the input is pending at any time, and
\* the suggestions stored and shown belong to the keyword typed last: the
\* answer for an earlier keyword, arriving after the answer for a later one
\* or after the input was cleared, neither overwrites the list nor reopens
\* the dropdown
C35_LatestKeywordWins ==
    /\ [](OneDebounceTimer /\ ShownForLatestKeyword)
    /\ [][StaleAnswerIgnored]_vars

IndexInList ==
    \/ controller.currentIndex = 0 - 1
    \/ /\ 0 <= controller.currentIndex
       /\ controller.currentIndex < Len(controller.suggestions)

\* a step that puts a suggestion into the input puts there the one
\* currentIndex names in the stored list
SelectsFromList ==
    (/\ typing' = typing
     /\ \/ controller'.input # controller.input
        \/ controller'.selectedLocation # controller.selectedLocation) =>
        /\ 0 <= controller.currentIndex
        /\ controller.currentIndex < Len(controller.suggestions)
        /\ controller'.input =
               controller.suggestions[controller.currentIndex + 1]

\* C36: after any sequence of input, ArrowUp, ArrowDown, Enter, Escape,
\* mouse-hover and suggestion-answer events, currentIndex is -1 or an index
\* of the stored suggestions (0 <= currentIndex < suggestions.length), and
\* Enter selects no entry outside that list
C36_IndexInRange == []IndexInList /\ [][SelectsFromList]_vars

====
